---- MODULE Spec2Model ----
(***************************************************************************)
(* Failure-signal extraction engine of the Jenkins investigator:           *)
(*   utils/log_parser.py   priority-budgeted log extraction                *)
(*   utils/junit_parser.py kind inference and blast-radius detection       *)
(*                                                                         *)
(* Representation of text.  A character string without a line break is a   *)
(* sequence of symbols of an abstract alphabet in which every keyword the  *)
(* regular expressions look for is ONE symbol ("FATAL", "ERROR:", "NPE"    *)
(* for NullPointerException, ...).  len() is Len, s[:k] is the first k     *)
(* symbols, re.search is the existence of a symbol of the pattern's set.   *)
(* A string with line breaks is the non-empty sequence of its "\n"-        *)
(* separated pieces (what str.split("\n") returns), so "" is <<Empty>>,    *)
(* "a\n" is <<a, Empty>>; "\n".join is concatenation of such sequences and *)
(* str.splitlines drops one trailing empty piece.                          *)
(* Line numbers are 0-based as in the source: lines[i] is Line(i).         *)
(***************************************************************************)
EXTENDS Integers, Sequences, FiniteSets, TLC

\* ------------------------------------------------------------------------
\* Budget constants (log_parser.py)
\* ------------------------------------------------------------------------
MAX_LINES == 250
HARD_LIMIT == 350
CONTEXT_LINES == 10
LOG_HEAD_LINES == 5
LOG_TAIL_LINES == 30
MIN_CLIP_LINES == 5
MSG_PREFIX_LEN == 100
TOKEN_FALLBACK_LEN == 60

TIER_CRITICAL == "CRITICAL"
TIER_ERROR == "ERROR"
TIER_WARNING == "WARNING"
NO_TIER == "NONE"

\* _TIER_RANK.get(tier, 99)
TierRank(tier) ==
    CASE tier = TIER_CRITICAL -> 0
      [] tier = TIER_ERROR -> 1
      [] tier = TIER_WARNING -> 2
      [] OTHER -> 99

\* ------------------------------------------------------------------------
\* Generic helpers
\* ------------------------------------------------------------------------
Max(a, b) == IF a >= b THEN a ELSE b
Min(a, b) == IF a <= b THEN a ELSE b

Empty == << >>

\* one line of text (a string without line break) as a piece of a string
Txt(s) == [k |-> "text", v |-> s]
EmptyLine == Txt(Empty)

\* list[:k] for k >= 0
Take(s, k) == SubSeq(s, 1, Min(k, Len(s)))
\* list[-k:] : Python reads -0 as 0, so k = 0 yields the whole list
LastN(s, k) == IF k = 0 \/ k >= Len(s) THEN s ELSE SubSeq(s, Len(s) - k + 1, Len(s))

\* str.splitlines() of a string given by its pieces
SplitLines(str) ==
    IF str[Len(str)] = EmptyLine THEN SubSeq(str, 1, Len(str) - 1) ELSE str

RECURSIVE Flatten(_)
\* "\n".join(parts), every part a string given by its pieces
Flatten(parts) ==
    IF parts = << >> THEN << >> ELSE Head(parts) \o Flatten(Tail(parts))

Join(parts) == IF parts = << >> THEN <<EmptyLine>> ELSE Flatten(parts)

\* "\n".join(lines), every element one line
JoinLines(ls) == IF ls = << >> THEN <<EmptyLine>> ELSE ls

\* ------------------------------------------------------------------------
\* Tiered severity patterns
\* ------------------------------------------------------------------------
CriticalSyms == {"FATAL", "OOM"}
ErrorSyms == {"ERROR:", "NPE", "IOE"}
WarningSyms == {"WARN"}
TokenSyms == {"NPE", "IOE", "OOM", "FATAL"}
IsoTimestampSyms == {"TS1", "TS2"}
BracketTimestampSyms == {"BTS"}
WhitespaceSyms == {"SP"}

Search(syms, line) == \E i \in 1..Len(line) : line[i] \in syms

_classify_line(line) ==
    IF Search(CriticalSyms, line) THEN TIER_CRITICAL
    ELSE IF Search(ErrorSyms, line) THEN TIER_ERROR
    ELSE IF Search(WarningSyms, line) THEN TIER_WARNING
    ELSE NO_TIER

RECURSIVE LStrip(_)
LStrip(s) == IF s # << >> /\ Head(s) \in WhitespaceSyms THEN LStrip(Tail(s)) ELSE s

RECURSIVE RStrip(_)
RStrip(s) ==
    IF s # << >> /\ s[Len(s)] \in WhitespaceSyms THEN RStrip(SubSeq(s, 1, Len(s) - 1)) ELSE s

Strip(s) == RStrip(LStrip(s))

\* re.sub(r"^<timestamp>\s*", "", line) for one family of timestamp symbols
StripLeading(tsSyms, line) ==
    IF line # << >> /\ Head(line) \in tsSyms THEN LStrip(Tail(line)) ELSE line

\* a _normalize_key without the two timestamp substitutions
NormalizeKeepTimestamp(line) == Strip(SelectSeq(line, LAMBDA a : a # "ANSI"))

_normalize_key(line) ==
    LET noAnsi == SelectSeq(line, LAMBDA a : a # "ANSI")
        noIso == StripLeading(IsoTimestampSyms, noAnsi)
        noBracket == StripLeading(BracketTimestampSyms, noIso)
    IN  Strip(noBracket)

_extract_exception_token(line) ==
    IF Search(TokenSyms, line)
    THEN LET i == CHOOSE j \in 1..Len(line) :
                      /\ line[j] \in TokenSyms
                      /\ \A h \in 1..(j - 1) : line[h] \notin TokenSyms
         IN  <<line[i]>>
    ELSE Take(line, TOKEN_FALLBACK_LEN)

\* ------------------------------------------------------------------------
\* Stage indexing
\* ------------------------------------------------------------------------
\* _PHASE_PATTERN, the idiom  [Pipeline] { (name)  : "STAGE(" opens, ")" closes,
\* the group (.+?) is the shortest non-empty run up to a ")"
PhaseMatches(line) ==
    \E p \in 1..Len(line) : \E q \in (p + 2)..Len(line) : line[p] = "STAGE(" /\ line[q] = ")"

PhaseGroup(line) ==
    LET p == CHOOSE a \in 1..Len(line) :
                 /\ line[a] = "STAGE("
                 /\ \E q \in (a + 2)..Len(line) : line[q] = ")"
                 /\ \A b \in 1..(a - 1) :
                        ~(line[b] = "STAGE(" /\ \E q \in (b + 2)..Len(line) : line[q] = ")")
        q == CHOOSE c \in (p + 2)..Len(line) :
                 line[c] = ")" /\ \A d \in (p + 2)..(c - 1) : line[d] # ")"
    IN  SubSeq(line, p + 1, q - 1)

RECURSIVE BuildStageIndexFrom(_, _)
BuildStageIndexFrom(lines, i) ==
    IF i >= Len(lines) THEN << >>
    ELSE IF PhaseMatches(lines[i + 1].v)
         THEN <<[idx |-> i, name |-> Strip(PhaseGroup(lines[i + 1].v))]>>
                  \o BuildStageIndexFrom(lines, i + 1)
         ELSE BuildStageIndexFrom(lines, i + 1)

_build_stage_index(lines) == BuildStageIndexFrom(lines, 0)

RECURSIVE BisectLoop(_, _, _, _)
\* bisect.bisect_right: while lo < hi: mid = (lo+hi)//2;
\*                      if x < a[mid]: hi = mid  else: lo = mid + 1
BisectLoop(a, x, lo, hi) ==
    IF lo < hi
    THEN LET mid == (lo + hi) \div 2
         IN  IF x < a[mid + 1] THEN BisectLoop(a, x, lo, mid)
             ELSE BisectLoop(a, x, mid + 1, hi)
    ELSE lo

RECURSIVE BisectLeftLoop(_, _, _, _)
BisectLeftLoop(a, x, lo, hi) ==
    IF lo < hi
    THEN LET mid == (lo + hi) \div 2
         IN  IF a[mid + 1] < x THEN BisectLeftLoop(a, x, mid + 1, hi)
             ELSE BisectLeftLoop(a, x, lo, mid)
    ELSE lo

\* the insertion point before, not after, the entries equal to x
BisectLeft(a, x) == BisectLeftLoop(a, x, 0, Len(a))

bisect_right(a, x) == BisectLoop(a, x, 0, Len(a))

_resolve_stage(stage_index, line_idx) ==
    IF stage_index = << >> THEN Empty
    ELSE LET positions == [j \in 1..Len(stage_index) |-> stage_index[j].idx]
             pos == bisect_right(positions, line_idx) - 1
         IN  IF pos < 0 THEN Empty ELSE stage_index[pos + 1].name

\* ------------------------------------------------------------------------
\* MatchedSection
\* ------------------------------------------------------------------------
MatchedSection(tier, start, end, key_lines, phase) ==
    [tier |-> tier, start |-> start, end |-> end, key_lines |-> key_lines,
     phase |-> phase, repeat_count |-> 1]

RECURSIVE MaxByLen(_, _)
\* max(key_lines, key=len): the first of the longest
MaxByLen(ks, best) ==
    IF ks = << >> THEN best
    ELSE MaxByLen(Tail(ks), IF Len(Head(ks)) > Len(best) THEN Head(ks) ELSE best)

BestKeyLine(section) ==
    IF section.key_lines = << >> THEN Empty
    ELSE MaxByLen(Tail(section.key_lines), Head(section.key_lines))

\* a fingerprint that leaves the tier out
FingerprintNoTier(section) ==
    LET best == BestKeyLine(section)
    IN  _extract_exception_token(best) \o <<"|">> \o section.phase \o <<"|">>
            \o Take(best, MSG_PREFIX_LEN)

\* f"{tier}|{token}|{phase}|{msg_prefix}" : one string, "|" between the parts
fingerprint(section) ==
    LET best == BestKeyLine(section)
        token == _extract_exception_token(best)
        msg_prefix == Take(best, MSG_PREFIX_LEN)
    IN  <<section.tier, "|">> \o token \o <<"|">> \o section.phase \o <<"|">> \o msg_prefix

\* ------------------------------------------------------------------------
\* Formatting
\* ------------------------------------------------------------------------
\* _make_header: the repeat tag prints repeat_count itself, and only when > 1
\* (repeat |-> 0 stands for "no tag"); the stage tag only for a non-empty phase
_make_header(section) ==
    [k |-> "section", tier |-> section.tier, near |-> section.start + 1,
     phase |-> section.phase,
     repeat |-> IF section.repeat_count > 1 THEN section.repeat_count ELSE 0]

OmittedMarker(n) == [k |-> "omitted", n |-> n]

\* lines[a : b] for 0 <= a, b (Python slice, end exclusive)
Slice(lines, a, b) == SubSeq(lines, a + 1, Min(b, Len(lines)))

\* header + "\n" + "\n".join(body)
Block(header, body) == <<header>> \o JoinLines(body)

\* a clip whose tail gets the larger half
FormatSectionTailHeavy(section, lines, max_lines) ==
    LET header == _make_header(section)
        snippet == Slice(lines, section.start, section.end + 1)
        full_cost == Len(snippet) + 1
        available == max_lines - 2
    IN  IF full_cost <= max_lines THEN Block(header, snippet)
        ELSE IF max_lines < 3 THEN <<header>>
        ELSE IF available < MIN_CLIP_LINES
             THEN LET clipped == Take(snippet, Max(1, available))
                      omitted == Len(snippet) - Len(clipped)
                  IN  Block(header, Append(clipped, OmittedMarker(omitted)))
             ELSE LET top_n == available \div 2
                      bottom_n == available - top_n
                      omitted == Len(snippet) - top_n - bottom_n
                      clipped == Append(Take(snippet, top_n), OmittedMarker(omitted))
                  IN  Block(header,
                            IF bottom_n > 0 THEN clipped \o LastN(snippet, bottom_n)
                            ELSE clipped)

\* a clip policy that gives the header alone whenever the minimum clip does not fit
FormatSectionHeaderBelowMinClip(section, lines, max_lines) ==
    LET header == _make_header(section)
        snippet == Slice(lines, section.start, section.end + 1)
        full_cost == Len(snippet) + 1
        available == max_lines - 2
    IN  IF full_cost <= max_lines THEN Block(header, snippet)
        ELSE IF available < MIN_CLIP_LINES THEN <<header>>
        ELSE LET top_n == (available + 1) \div 2
                 bottom_n == available - top_n
                 omitted == Len(snippet) - top_n - bottom_n
                 clipped == Append(Take(snippet, top_n), OmittedMarker(omitted))
             IN  Block(header,
                       IF bottom_n > 0 THEN clipped \o LastN(snippet, bottom_n)
                       ELSE clipped)

_format_section(section, lines, max_lines) ==
    LET header == _make_header(section)
        snippet == Slice(lines, section.start, section.end + 1)
        full_cost == Len(snippet) + 1
        available == max_lines - 2
    IN  IF full_cost <= max_lines THEN Block(header, snippet)
        ELSE IF max_lines < 3 THEN <<header>>
        ELSE IF available < MIN_CLIP_LINES
             THEN LET clipped == Take(snippet, Max(1, available))
                      omitted == Len(snippet) - Len(clipped)
                  IN  Block(header, Append(clipped, OmittedMarker(omitted)))
             ELSE LET top_n == (available + 1) \div 2
                      bottom_n == available - top_n
                      omitted == Len(snippet) - top_n - bottom_n
                      clipped == Append(Take(snippet, top_n), OmittedMarker(omitted))
                  IN  Block(header,
                            IF bottom_n > 0 THEN clipped \o LastN(snippet, bottom_n)
                            ELSE clipped)

\* the visiting order of _budget_fill's nested loops: for tier in tier_order,
\* for section in sections, "continue" unless section.tier = tier
tier_order == <<TIER_CRITICAL, TIER_ERROR, TIER_WARNING>>

IndicesOfTier(sections, tier) ==
    SelectSeq([j \in 1..Len(sections) |-> j], LAMBDA j : sections[j].tier = tier)

\* a _budget_fill that visits the sections in scan order, whatever their tier
FillOrderScanOrder(sections) == [j \in 1..Len(sections) |-> j]

\* a _budget_fill that goes through the tiers from WARNING to CRITICAL
FillOrderWarningsFirst(sections) ==
    IndicesOfTier(sections, tier_order[3]) \o IndicesOfTier(sections, tier_order[2])
        \o IndicesOfTier(sections, tier_order[1])

FillOrder(sections) ==
    IndicesOfTier(sections, tier_order[1]) \o IndicesOfTier(sections, tier_order[2])
        \o IndicesOfTier(sections, tier_order[3])

\* ------------------------------------------------------------------------
\* truncate_tail and the fixed lines of the report
\* ------------------------------------------------------------------------
TruncNotice(max_lines, total) == [k |-> "truncated", shown |-> max_lines, of |-> total]

truncate_tail(text, max_lines) ==
    LET lines == SplitLines(text)
    IN  IF Len(lines) <= max_lines THEN text
        ELSE <<TruncNotice(max_lines, Len(lines))>> \o JoinLines(LastN(lines, max_lines))

EmptyLogMessage == [k |-> "empty_log"]
NoMatchNotice(max_lines) == [k |-> "no_match", shown |-> max_lines]
HeadHeader == [k |-> "log_start"]
TailHeader(n) == [k |-> "log_end", n |-> n]
HardLimitNotice(hard_limit) == [k |-> "hard_limit", at |-> hard_limit]

CountTier(sections, tier) == Len(IndicesOfTier(sections, tier))

RECURSIVE SumRepeats(_)
\* a count of occurrences rather than of duplicates
SumRepeats(sections) ==
    IF sections = << >> THEN 0
    ELSE Head(sections).repeat_count + SumRepeats(Tail(sections))

RECURSIVE SumDupes(_)
SumDupes(sections) ==
    IF sections = << >> THEN 0
    ELSE (Head(sections).repeat_count - 1) + SumDupes(Tail(sections))

Summary(total_lines, deduped) ==
    [k |-> "summary", total |-> total_lines,
     n_critical |-> CountTier(deduped, TIER_CRITICAL),
     n_error |-> CountTier(deduped, TIER_ERROR),
     n_warning |-> CountTier(deduped, TIER_WARNING),
     n_dupes |-> SumDupes(deduped)]

\* not text
IsEmptyText(text) == text = <<EmptyLine>>

\* not text.strip()
IsBlankText(text) ==
    \A i \in 1..Len(text) : \A j \in 1..Len(text[i].v) : text[i].v[j] \in WhitespaceSyms

\* ------------------------------------------------------------------------
\* State
\* ------------------------------------------------------------------------
VARIABLES
    pc,             \* position of the call in progress
    text,           \* get_error_log: the log text, by its pieces
    max_lines,      \* get_error_log: soft line budget
    hard_limit,     \* get_error_log: absolute output cap
    include_head,   \* get_error_log: head anchor wanted
    include_tail,   \* get_error_log: tail anchor wanted
    lines,          \* text.splitlines()
    stage_index,    \* _build_stage_index(lines)
    match_data,     \* _scan: the classified lines, <<index, tier>>
    scan_i,         \* _scan: number of raw ranges merged so far
    merged,         \* _scan: the sections built so far
    dedup_i,        \* _deduplicate: number of sections visited
    seen,           \* _deduplicate: fingerprint -> position in unique
    unique,         \* _deduplicate: the retained sections
    parts,          \* get_error_log: the blocks of the report
    tail_block,     \* get_error_log: the tail anchor, << >> for None
    section_budget, \* get_error_log: max_lines - fixed_cost
    fill_i,         \* _budget_fill: sections of the visiting order handled
    used,           \* _budget_fill: lines spent
    exhausted,      \* _budget_fill: the flag that ends both loops
    output_parts,   \* _budget_fill: the formatted blocks
    result,         \* the returned string, by its pieces; << >> before the return
    path,           \* which return statement produced result
    xml_content,    \* parse_junit_xml: the document text, by what ET.fromstring makes of it
    parse_result,   \* parse_junit_xml: "pending", then "None", "list" or "raised"
    suite_elements, \* parse_junit_xml: the elements the loop goes over
    parse_i,        \* parse_junit_xml: number of elements visited
    classification, \* classify_failures(suites)
    threshold,      \* detect_blast_radius: the threshold, a fraction num/den
    suites,         \* the suite dicts parsed so far
    blast_i,        \* detect_blast_radius: number of suites visited
    blasts,         \* detect_blast_radius: the records found so far
    call,           \* get_error_log: 1 in the first call, 2 in a repeated call
    previous,       \* the string the first call returned; << >> during the first call
    fs_section,     \* _format_section: the section argument
    fs_lines,       \* _format_section: the lines argument
    fs_max_lines,   \* _format_section: the max_lines argument
    fs_formatted,   \* _format_section: the returned string, by its pieces; << >> before
    sl_start,       \* get_stage_log: start, the offset of the next request
    sl_total,       \* get_stage_log: total, the characters collected
    sl_chunks,      \* get_stage_log: chunks
    sl_requests,    \* the start offsets of the requests made through _get, in order
    sl_responses,   \* what _get gave for each request
    sl_result       \* get_stage_log: pending, the returned string, or the exception raised

logVars == <<text, max_lines, hard_limit, include_head, include_tail, lines, stage_index,
             match_data, scan_i, merged, dedup_i, seen, unique, parts, tail_block,
             section_budget, fill_i, used, exhausted, output_parts, result, path>>

junitVars == <<xml_content, parse_result, suite_elements, parse_i, classification, threshold,
               suites, blast_i, blasts>>

callVars == <<call, previous>>

formatVars == <<fs_section, fs_lines, fs_max_lines, fs_formatted>>

stageVars == <<sl_start, sl_total, sl_chunks, sl_requests, sl_responses, sl_result>>

vars == <<pc, logVars, junitVars, callVars, formatVars, stageVars>>

\* ------------------------------------------------------------------------
\* Inputs
\* ------------------------------------------------------------------------
MaxEvents == 3

FillerLine(p) == <<"line", ToString(p)>>

RECURSIVE Fillers(_, _)
\* n filler lines, the first at line index from
Fillers(from, n) ==
    IF n = 0 THEN << >> ELSE <<Txt(FillerLine(from))>> \o Fillers(from + 1, n - 1)

RECURSIVE BuildLog(_, _)
\* every event: gap filler lines, then the event's lines
BuildLog(events, from) ==
    IF events = << >> THEN << >>
    ELSE LET ev == Head(events)
             own == [j \in 1..Len(ev.lines) |-> Txt(ev.lines[j])]
         IN  Fillers(from, ev.gap) \o own
                 \o BuildLog(Tail(events), from + ev.gap + Len(own))

LogLines(events, trail) ==
    LET body == BuildLog(events, 0) IN body \o Fillers(Len(body), trail)

\* number of filler lines before an event line: overlapping windows, adjacent
\* windows (2 * CONTEXT_LINES), separate windows (2 * CONTEXT_LINES + 1)
AdjacentGap == 2 * CONTEXT_LINES
FarGap == 2 * CONTEXT_LINES + 1
Trails == {0, 12}

\* a text is its lines, with or without a final line break
LineBreaks == {<< >>, <<EmptyLine>>}

BlankTexts == {<<EmptyLine>>, <<Txt(<<"SP">>), EmptyLine, Txt(<<"SP", "SP">>)>>}

\* logs of up to MaxEvents classified lines of the three tiers
TierLines == { <<"FATAL", "crash">>, <<"ERROR:", "NPE">>, <<"WARN", "old">> }
TierEvents == [gap : {0, FarGap}, lines : {<<l>> : l \in TierLines}]
TierEventSeqs == UNION { [1..n -> TierEvents] : n \in 0..MaxEvents }

\* logs of two lines A and B, each optionally preceded by a stage marker
LongLine(last) == <<"ERROR:">> \o [j \in 1..(MSG_PREFIX_LEN - 1) |-> "x"] \o <<last>>

PairLines ==
    { <<"FATAL", "crash">>,
      <<"ERROR:", "NPE">>,
      <<"ERROR:", "IOE">>,
      <<"NPE">>,
      <<"x", "|", "NPE">>,
      <<"ERROR:", "quota">>,
      <<"TS1", "ERROR:", "quota">>,
      <<"TS2", "ERROR:", "quota">>,
      <<"ANSI", "BTS", "SP", "ERROR:", "quota", "SP">>,
      <<"WARN", "old">>,
      LongLine("a"),
      LongLine("b"),
      Empty }

StageMarkers ==
    { << >>,
      <<(<<"STAGE(", "S", ")">>)>>,
      <<(<<"STAGE(", "T", ")">>)>>,
      <<(<<"STAGE(", "S", "|", "x", ")">>)>> }

FirstMarkers == { << >>, <<(<<"STAGE(", "S", ")">>)>> }

PairEventSeqs ==
    { << [gap |-> 0, lines |-> m1 \o <<a>>], [gap |-> g, lines |-> m2 \o <<b>>] >> :
          m1 \in FirstMarkers, a \in PairLines, g \in {0, AdjacentGap, FarGap},
          m2 \in StageMarkers, b \in PairLines }

\* max_lines, hard_limit, include_head, include_tail
Config(ml, hl, ih, it) ==
    [max_lines |-> ml, hard_limit |-> hl, include_head |-> ih, include_tail |-> it]

DefaultConfig == Config(MAX_LINES, HARD_LIMIT, TRUE, TRUE)

Configs ==
    { DefaultConfig,
      Config(MAX_LINES, 300, FALSE, TRUE),
      Config(MAX_LINES, 8, TRUE, FALSE),
      Config(60, 80, TRUE, TRUE),
      Config(46, 50, TRUE, TRUE),
      Config(40, 60, TRUE, TRUE),
      Config(30, 35, FALSE, FALSE),
      Config(9, 9, FALSE, FALSE),
      Config(9, 8, FALSE, FALSE),
      Config(0, HARD_LIMIT, TRUE, TRUE),
      Config(MAX_LINES, 0, TRUE, TRUE) }

FirstCall == call = 1 /\ previous = << >>

StageIdle ==
    /\ sl_start = 0
    /\ sl_total = 0
    /\ sl_chunks = << >>
    /\ sl_requests = << >>
    /\ sl_responses = << >>
    /\ sl_result = [kind |-> "pending"]

FormatIdle ==
    /\ fs_section = MatchedSection(TIER_ERROR, 0, 0, << >>, Empty)
    /\ fs_lines = << >>
    /\ fs_max_lines = 0
    /\ fs_formatted = << >>

JunitIdle ==
    /\ xml_content = [form |-> "none"]
    /\ parse_result = "pending"
    /\ suite_elements = << >>
    /\ parse_i = 0
    /\ classification = [assertions |-> 0, exceptions |-> 0, total_failed |-> 0]
    /\ threshold = [num |-> 0, den |-> 1]
    /\ suites = << >>
    /\ blast_i = 0
    /\ blasts = << >>

LogInit(t, cfg) ==
    /\ pc = "start"
    /\ JunitIdle
    /\ FirstCall
    /\ FormatIdle
    /\ StageIdle
    /\ text = t
    /\ max_lines = cfg.max_lines
    /\ hard_limit = cfg.hard_limit
    /\ include_head = cfg.include_head
    /\ include_tail = cfg.include_tail
    /\ lines = << >>
    /\ stage_index = << >>
    /\ match_data = << >>
    /\ scan_i = 0
    /\ merged = << >>
    /\ dedup_i = 0
    /\ seen = << >>
    /\ unique = << >>
    /\ parts = << >>
    /\ tail_block = << >>
    /\ section_budget = 0
    /\ fill_i = 0
    /\ used = 0
    /\ exhausted = FALSE
    /\ output_parts = << >>
    /\ result = << >>
    /\ path = "none"

\* the budgets under which a log with classified lines is triaged
TierConfigs == Configs \ {Config(9, 9, FALSE, FALSE), Config(9, 8, FALSE, FALSE)}

TierTrail == LOG_TAIL_LINES - 2 * CONTEXT_LINES + 2

InitTierLogs ==
    \E ev \in TierEventSeqs, cfg \in TierConfigs :
        /\ ev # << >>
        /\ LogInit(LogLines(ev, TierTrail), cfg)

InitPairLogs ==
    \E ev \in PairEventSeqs, tr \in Trails : LogInit(LogLines(ev, tr), DefaultConfig)

\* logs without any classified line
MaxCleanLines == 12

InitCleanLogs ==
    \E n \in 1..MaxCleanLines, nl \in LineBreaks, cfg \in Configs :
        LogInit(Fillers(0, n) \o nl, cfg)

InitBlankLogs == \E t \in BlankTexts, cfg \in Configs : LogInit(t, cfg)

\* short logs of stage markers, plain lines and errors, in every order
MaxStageLines == 4

StageLineKinds ==
    { <<"STAGE(", "S", ")">>, <<"STAGE(", "T", ")">>, <<"x">>, <<"ERROR:", "NPE">>,
      <<"STAGE(", "U", ")", "ERROR:", "NPE">>, <<"STAGE(", "SP", ")">> }

InitStageLogs ==
    \E n \in 1..MaxStageLines : \E ks \in [1..n -> StageLineKinds] :
        LogInit([j \in 1..n |-> Txt(ks[j])], DefaultConfig)

\* logs of two classified lines under every budget
InitTwoTierLogs ==
    \E ev \in [1..2 -> TierEvents], cfg \in TierConfigs : LogInit(LogLines(ev, TierTrail), cfg)

\* the logs that are triaged twice
InitRepeated == InitTwoTierLogs \/ InitStageLogs \/ InitCleanLogs \/ InitBlankLogs

InitLog == InitTierLogs \/ InitPairLogs \/ InitCleanLogs \/ InitBlankLogs \/ InitStageLogs

\* ------------------------------------------------------------------------
\* get_error_log, step by step
\* ------------------------------------------------------------------------
RECURSIVE MatchDataFrom(_, _)
\* _scan, first loop: (i, tier) of every line that classifies
MatchDataFrom(ls, i) ==
    IF i >= Len(ls) THEN << >>
    ELSE LET tier == _classify_line(ls[i + 1].v)
         IN  IF tier # NO_TIER THEN <<[idx |-> i, tier |-> tier]>> \o MatchDataFrom(ls, i + 1)
             ELSE MatchDataFrom(ls, i + 1)

Return(r, p) ==
    /\ result' = r
    /\ path' = p
    /\ pc' = "done"

\* lines 372-379: the empty check, splitlines, the stage index, _scan's first loop
Start ==
    /\ pc = "start"
    /\ IF IsBlankText(text)
       THEN /\ Return(<<EmptyLogMessage>>, "empty")
            /\ UNCHANGED <<lines, stage_index, match_data>>
       ELSE /\ lines' = SplitLines(text)
            /\ stage_index' = _build_stage_index(lines')
            /\ match_data' = MatchDataFrom(lines', 0)
            /\ pc' = IF match_data' = << >> THEN "nomatch" ELSE "scan"
            /\ UNCHANGED <<result, path>>
    /\ UNCHANGED <<junitVars, callVars, formatVars, stageVars>>
    /\ UNCHANGED <<text, max_lines, hard_limit, include_head, include_tail, scan_i, merged,
                   dedup_i, seen, unique, parts, tail_block, section_budget, fill_i, used,
                   exhausted, output_parts>>

\* _scan, one iteration of the merge loop
\* a merge of overlapping windows only, adjacent windows staying apart
MergeRangeOverlapOnly(prev_merged, ls, index, m) ==
    LET start == Max(0, m.idx - CONTEXT_LINES)
        end == Min(Len(ls) - 1, m.idx + CONTEXT_LINES)
        key == _normalize_key(ls[m.idx + 1].v)
        phase == _resolve_stage(index, m.idx)
        n == Len(prev_merged)
    IN  IF n > 0 /\ start <= prev_merged[n].end
        THEN LET prev == prev_merged[n]
             IN  [prev_merged EXCEPT ![n] =
                     [prev EXCEPT
                         !.end = Max(prev.end, end),
                         !.key_lines = IF \E j \in 1..Len(prev.key_lines) : prev.key_lines[j] = key
                                       THEN prev.key_lines
                                       ELSE Append(prev.key_lines, key),
                         !.tier = IF TierRank(m.tier) < TierRank(prev.tier)
                                  THEN m.tier ELSE prev.tier,
                         !.phase = IF phase # Empty THEN phase ELSE prev.phase]]
        ELSE Append(prev_merged, MatchedSection(m.tier, start, end, <<key>>, phase))

\* a merge that gives the section the tier of the line merged last
MergeRangeLastTier(prev_merged, ls, index, m) ==
    LET start == Max(0, m.idx - CONTEXT_LINES)
        end == Min(Len(ls) - 1, m.idx + CONTEXT_LINES)
        key == _normalize_key(ls[m.idx + 1].v)
        phase == _resolve_stage(index, m.idx)
        n == Len(prev_merged)
    IN  IF n > 0 /\ start <= prev_merged[n].end + 1
        THEN LET prev == prev_merged[n]
             IN  [prev_merged EXCEPT ![n] =
                     [prev EXCEPT
                         !.end = Max(prev.end, end),
                         !.key_lines = IF \E j \in 1..Len(prev.key_lines) : prev.key_lines[j] = key
                                       THEN prev.key_lines
                                       ELSE Append(prev.key_lines, key),
                         !.tier = m.tier,
                         !.phase = IF phase # Empty THEN phase ELSE prev.phase]]
        ELSE Append(prev_merged, MatchedSection(m.tier, start, end, <<key>>, phase))

\* a merge that takes the stage of the new line even when it is empty
MergeRangeOverwritePhase(prev_merged, ls, index, m) ==
    LET start == Max(0, m.idx - CONTEXT_LINES)
        end == Min(Len(ls) - 1, m.idx + CONTEXT_LINES)
        key == _normalize_key(ls[m.idx + 1].v)
        phase == _resolve_stage(index, m.idx)
        n == Len(prev_merged)
    IN  IF n > 0 /\ start <= prev_merged[n].end + 1
        THEN LET prev == prev_merged[n]
             IN  [prev_merged EXCEPT ![n] =
                     [prev EXCEPT
                         !.end = Max(prev.end, end),
                         !.key_lines = IF \E j \in 1..Len(prev.key_lines) : prev.key_lines[j] = key
                                       THEN prev.key_lines
                                       ELSE Append(prev.key_lines, key),
                         !.tier = IF TierRank(m.tier) < TierRank(prev.tier)
                                  THEN m.tier ELSE prev.tier,
                         !.phase = phase]]
        ELSE Append(prev_merged, MatchedSection(m.tier, start, end, <<key>>, phase))

MergeRange(prev_merged, ls, index, m) ==
    LET start == Max(0, m.idx - CONTEXT_LINES)
        end == Min(Len(ls) - 1, m.idx + CONTEXT_LINES)
        key == _normalize_key(ls[m.idx + 1].v)
        phase == _resolve_stage(index, m.idx)
        n == Len(prev_merged)
    IN  IF n > 0 /\ start <= prev_merged[n].end + 1
        THEN LET prev == prev_merged[n]
             IN  [prev_merged EXCEPT ![n] =
                     [prev EXCEPT
                         !.end = Max(prev.end, end),
                         !.key_lines = IF \E j \in 1..Len(prev.key_lines) : prev.key_lines[j] = key
                                       THEN prev.key_lines
                                       ELSE Append(prev.key_lines, key),
                         !.tier = IF TierRank(m.tier) < TierRank(prev.tier)
                                  THEN m.tier ELSE prev.tier,
                         !.phase = IF phase # Empty THEN phase ELSE prev.phase]]
        ELSE Append(prev_merged, MatchedSection(m.tier, start, end, <<key>>, phase))

ScanStep ==
    /\ pc = "scan"
    /\ scan_i < Len(match_data)
    /\ merged' = MergeRange(merged, lines, stage_index, match_data[scan_i + 1])
    /\ scan_i' = scan_i + 1
    /\ pc' = IF scan_i' = Len(match_data) THEN "dedup" ELSE "scan"
    /\ UNCHANGED <<junitVars, callVars, formatVars, stageVars>>
    /\ UNCHANGED <<text, max_lines, hard_limit, include_head, include_tail, lines,
                   stage_index, match_data, dedup_i, seen, unique, parts, tail_block,
                   section_budget, fill_i, used, exhausted, output_parts, result, path>>

NoMatchBody(txt, ml) == <<NoMatchNotice(ml), EmptyLine>> \o truncate_tail(txt, ml)

\* lines 381-385: nothing classified
NoMatchFallback ==
    /\ pc = "nomatch"
    /\ Return(NoMatchBody(text, max_lines), "nomatch")
    /\ UNCHANGED <<junitVars, callVars, formatVars, stageVars>>
    /\ UNCHANGED <<text, max_lines, hard_limit, include_head, include_tail, lines,
                   stage_index, match_data, scan_i, merged, dedup_i, seen, unique, parts,
                   tail_block, section_budget, fill_i, used, exhausted, output_parts>>

\* a _deduplicate that retains the latest occurrence of a fingerprint
DedupStepKeepLast ==
    /\ pc = "dedup"
    /\ dedup_i < Len(merged)
    /\ LET section == merged[dedup_i + 1]
           fp == fingerprint(section)
       IN  IF fp \in DOMAIN seen
           THEN /\ unique' = [unique EXCEPT ![seen[fp]] =
                                  [section EXCEPT !.repeat_count = unique[seen[fp]].repeat_count + 1]]
                /\ seen' = seen
           ELSE /\ seen' = [f \in DOMAIN seen \cup {fp} |->
                               IF f = fp THEN Len(unique) + 1 ELSE seen[f]]
                /\ unique' = Append(unique, section)
    /\ dedup_i' = dedup_i + 1
    /\ pc' = IF dedup_i' = Len(merged) THEN "reserve" ELSE "dedup"
    /\ UNCHANGED <<junitVars, callVars, formatVars, stageVars>>
    /\ UNCHANGED <<text, max_lines, hard_limit, include_head, include_tail, lines,
                   stage_index, match_data, scan_i, merged, parts, tail_block,
                   section_budget, fill_i, used, exhausted, output_parts, result, path>>

\* _deduplicate, one iteration
DedupStep ==
    /\ pc = "dedup"
    /\ dedup_i < Len(merged)
    /\ LET section == merged[dedup_i + 1]
           fp == fingerprint(section)
       IN  IF fp \in DOMAIN seen
           THEN /\ unique' = [unique EXCEPT ![seen[fp]].repeat_count = @ + 1]
                /\ seen' = seen
           ELSE /\ seen' = [f \in DOMAIN seen \cup {fp} |->
                               IF f = fp THEN Len(unique) + 1 ELSE seen[f]]
                /\ unique' = Append(unique, section)
    /\ dedup_i' = dedup_i + 1
    /\ pc' = IF dedup_i' = Len(merged) THEN "reserve" ELSE "dedup"
    /\ UNCHANGED <<junitVars, callVars, formatVars, stageVars>>
    /\ UNCHANGED <<text, max_lines, hard_limit, include_head, include_tail, lines,
                   stage_index, match_data, scan_i, merged, parts, tail_block,
                   section_budget, fill_i, used, exhausted, output_parts, result, path>>

HeadBlock(ls) == Block(HeadHeader, Take(ls, LOG_HEAD_LINES))

\* a tail anchor that starts one line late
TailBlockOffByOne(ls) ==
    LET tail_start == Max(0, Len(ls) - LOG_TAIL_LINES + 1)
        tail == Slice(ls, tail_start, Len(ls))
    IN  Block(TailHeader(Len(tail)), tail)

TailBlock(ls) ==
    LET tail_start == Max(0, Len(ls) - LOG_TAIL_LINES)
        tail == Slice(ls, tail_start, Len(ls))
    IN  Block(TailHeader(Len(tail)), tail)

\* lines 400-413: 3 for the summary and separators, plus the anchors as counted
\* by len(block.splitlines())
FixedCost(ls, with_head, with_tail) ==
    3 + (IF with_head THEN Len(SplitLines(HeadBlock(ls))) ELSE 0)
      + (IF with_tail THEN Len(SplitLines(TailBlock(ls))) ELSE 0)

FallbackBody(summary, txt, ml) == <<summary, EmptyLine>> \o truncate_tail(txt, ml)

\* lines 387-420: summary, anchors, the budget left for sections
Reserve ==
    /\ pc = "reserve"
    /\ LET summary == Summary(Len(lines), unique)
           budget == max_lines - FixedCost(lines, include_head, include_tail)
       IN  /\ parts' = <<(<<summary>>), (<<EmptyLine>>)>>
                         \o (IF include_head THEN <<HeadBlock(lines), (<<EmptyLine>>)>> ELSE << >>)
           /\ tail_block' = IF include_tail THEN TailBlock(lines) ELSE << >>
           /\ section_budget' = budget
           /\ IF budget < MIN_CLIP_LINES + 1
              THEN Return(FallbackBody(summary, text, max_lines), "small_budget")
              ELSE /\ pc' = "fill"
                   /\ UNCHANGED <<result, path>>
    /\ UNCHANGED <<junitVars, callVars, formatVars, stageVars>>
    /\ UNCHANGED <<text, max_lines, hard_limit, include_head, include_tail, lines,
                   stage_index, match_data, scan_i, merged, dedup_i, seen, unique, fill_i,
                   used, exhausted, output_parts>>

\* a _budget_fill that stops unless the minimum clip with its marker fits
FillStepStricterThreshold ==
    /\ pc = "fill"
    /\ ~exhausted
    /\ fill_i < Len(FillOrder(unique))
    /\ LET section == unique[FillOrder(unique)[fill_i + 1]]
           remaining == section_budget - used
       IN  IF remaining < MIN_CLIP_LINES + 2
           THEN /\ exhausted' = TRUE
                /\ UNCHANGED <<fill_i, used, output_parts>>
           ELSE LET formatted == _format_section(section, lines, remaining)
                    cost == Len(SplitLines(formatted))
                IN  /\ output_parts' = Append(output_parts, formatted)
                    /\ used' = used + cost
                    /\ fill_i' = fill_i + 1
                    /\ UNCHANGED exhausted
    /\ UNCHANGED <<junitVars, callVars, formatVars, stageVars>>
    /\ UNCHANGED <<pc, text, max_lines, hard_limit, include_head, include_tail, lines,
                   stage_index, match_data, scan_i, merged, dedup_i, seen, unique, parts,
                   tail_block, section_budget, result, path>>

\* _budget_fill, one visited section
FillStep ==
    /\ pc = "fill"
    /\ ~exhausted
    /\ fill_i < Len(FillOrder(unique))
    /\ LET section == unique[FillOrder(unique)[fill_i + 1]]
           remaining == section_budget - used
       IN  IF remaining < MIN_CLIP_LINES + 1
           THEN /\ exhausted' = TRUE
                /\ UNCHANGED <<fill_i, used, output_parts>>
           ELSE LET formatted == _format_section(section, lines, remaining)
                    cost == Len(SplitLines(formatted))
                IN  /\ output_parts' = Append(output_parts, formatted)
                    /\ used' = used + cost
                    /\ fill_i' = fill_i + 1
                    /\ UNCHANGED exhausted
    /\ UNCHANGED <<junitVars, callVars, formatVars, stageVars>>
    /\ UNCHANGED <<pc, text, max_lines, hard_limit, include_head, include_tail, lines,
                   stage_index, match_data, scan_i, merged, dedup_i, seen, unique, parts,
                   tail_block, section_budget, result, path>>

RECURSIVE WithSeparators(_)
\* for ep in error_parts: parts.append(ep); parts.append("")
WithSeparators(eps) ==
    IF eps = << >> THEN << >> ELSE <<Head(eps), (<<EmptyLine>>)>> \o WithSeparators(Tail(eps))

\* lines 436-439: the hard-limit guard
HardLimitGuard(res, limit) ==
    LET result_lines == SplitLines(res)
    IN  IF Len(result_lines) > limit
        THEN JoinLines(Take(result_lines, limit)) \o <<HardLimitNotice(limit)>>
        ELSE res

\* lines 424-441: the report is put together and guarded
Assemble ==
    /\ pc = "fill"
    /\ exhausted \/ fill_i = Len(FillOrder(unique))
    /\ IF output_parts = << >>
       THEN /\ Return(FallbackBody(parts[1][1], text, max_lines), "no_parts")
            /\ UNCHANGED parts
       ELSE /\ parts' = parts \o WithSeparators(output_parts)
                          \o (IF tail_block # << >> THEN <<tail_block>> ELSE << >>)
            /\ Return(HardLimitGuard(Join(parts'), hard_limit), "assembled")
    /\ UNCHANGED <<junitVars, callVars, formatVars, stageVars>>
    /\ UNCHANGED <<text, max_lines, hard_limit, include_head, include_tail, lines,
                   stage_index, match_data, scan_i, merged, dedup_i, seen, unique,
                   tail_block, section_budget, fill_i, used, exhausted, output_parts>>

\* a call whose list of sections is the one the call before left behind
CallAgainKeepingSections ==
    /\ pc = "done"
    /\ path # "none"
    /\ call = 1
    /\ call' = 2
    /\ previous' = result
    /\ pc' = "start"
    /\ lines' = << >> /\ stage_index' = << >> /\ match_data' = << >> /\ scan_i' = 0
    /\ dedup_i' = 0 /\ seen' = << >> /\ unique' = << >> /\ parts' = << >>
    /\ tail_block' = << >> /\ section_budget' = 0 /\ fill_i' = 0 /\ used' = 0
    /\ exhausted' = FALSE /\ output_parts' = << >> /\ result' = << >> /\ path' = "none"
    /\ UNCHANGED <<merged, text, max_lines, hard_limit, include_head, include_tail>>
    /\ UNCHANGED <<junitVars, formatVars, stageVars>>

\* get_error_log called once more with the arguments of the call that returned:
\* every local of get_error_log, _scan, _deduplicate and _budget_fill is created
\* inside the call
CallAgain ==
    /\ pc = "done"
    /\ path # "none"
    /\ call = 1
    /\ call' = 2
    /\ previous' = result
    /\ pc' = "start"
    /\ lines' = << >> /\ stage_index' = << >> /\ match_data' = << >> /\ scan_i' = 0
    /\ merged' = << >> /\ dedup_i' = 0 /\ seen' = << >> /\ unique' = << >>
    /\ parts' = << >> /\ tail_block' = << >> /\ section_budget' = 0 /\ fill_i' = 0
    /\ used' = 0 /\ exhausted' = FALSE /\ output_parts' = << >> /\ result' = << >>
    /\ path' = "none"
    /\ UNCHANGED <<text, max_lines, hard_limit, include_head, include_tail>>
    /\ UNCHANGED <<junitVars, formatVars, stageVars>>

\* ------------------------------------------------------------------------
\* junit_parser.py : patterns and kind inference
\* ------------------------------------------------------------------------
_MAX_DETAIL_CHARS == 5000
BLAST_KEY_LEN == 100
MIN_BLAST_FAILURES == 3

\* Assertion|ComparisonFailure|ExpectationFailure, anywhere in the text
AssertionTypeSyms == {"AssertionError", "ComparisonFailure"}
\* Exception|Error|Timeout|Refused, anywhere in the text
ExceptionTypeSyms ==
    {"AssertionError", "IOException", "Error", "TimeoutExpired", "Timeout", "Refused"}
\* \w+Exception\b|\w+Error\b|Timeout\b|Refused\b : a bare "Error" has no \w+ before
\* it, "TimeoutExpired" has no word boundary after Timeout
ExceptionMsgSyms == {"AssertionError", "IOException", "Timeout", "Refused"}

\* an inference from the type attribute and the element tag alone
InferKindNoMessage(type_attr, message, element_tag) ==
    IF type_attr # Empty /\ Search(AssertionTypeSyms, type_attr) THEN "assertion"
    ELSE IF type_attr # Empty /\ Search(ExceptionTypeSyms, type_attr) THEN "exception"
    ELSE IF element_tag = "failure" THEN "assertion" ELSE "exception"

\* an inference that looks at the message before the type attribute
InferKindMessageFirst(type_attr, message, element_tag) ==
    LET combined == type_attr \o <<"SP">> \o message
    IN  IF Search(AssertionTypeSyms, combined) THEN "assertion"
        ELSE IF Search(ExceptionMsgSyms, combined) THEN "exception"
        ELSE IF element_tag = "failure" THEN "assertion" ELSE "exception"

_infer_kind(type_attr, message, element_tag) ==
    IF type_attr # Empty /\ Search(AssertionTypeSyms, type_attr) THEN "assertion"
    ELSE IF type_attr # Empty /\ Search(ExceptionTypeSyms, type_attr) THEN "exception"
    ELSE LET combined == type_attr \o <<"SP">> \o message
         IN  IF Search(AssertionTypeSyms, combined) THEN "assertion"
             ELSE IF Search(ExceptionMsgSyms, combined) THEN "exception"
             ELSE IF element_tag = "failure" THEN "assertion" ELSE "exception"

\* ------------------------------------------------------------------------
\* junit_parser.py : parsing.  An element is a record; a <testcase> has the
\* sequence of its child elements, each with tag, type, message and text.
\* time_s, stdout and stderr of a case play no part below and are left out.
\* ------------------------------------------------------------------------
HasChild(case_el, tag) == \E j \in 1..Len(case_el.children) : case_el.children[j].tag = tag

\* Element.find(tag): the first child with that tag
Find(case_el, tag) ==
    case_el.children[CHOOSE j \in 1..Len(case_el.children) :
                         /\ case_el.children[j].tag = tag
                         /\ \A h \in 1..(j - 1) : case_el.children[h].tag # tag]

_parse_case(case_el) ==
    LET base == [name |-> case_el.name, class_name |-> case_el.classname]
    IN  IF HasChild(case_el, "failure")
        THEN LET el == Find(case_el, "failure")
             IN  base @@ [status |-> "failed", message |-> el.message,
                          detail |-> Take(el.text, _MAX_DETAIL_CHARS),
                          kind |-> _infer_kind(el.type, el.message, "failure"),
                          skip_reason |-> Empty]
        ELSE IF HasChild(case_el, "error")
        THEN LET el == Find(case_el, "error")
             IN  base @@ [status |-> "errored", message |-> el.message,
                          detail |-> Take(el.text, _MAX_DETAIL_CHARS),
                          kind |-> _infer_kind(el.type, el.message, "error"),
                          skip_reason |-> Empty]
        ELSE IF HasChild(case_el, "skipped")
        THEN LET el == Find(case_el, "skipped")
             IN  base @@ [status |-> "skipped", message |-> el.message, detail |-> Empty,
                          kind |-> "skipped", skip_reason |-> el.message]
        ELSE base @@ [status |-> "passed", message |-> Empty, detail |-> Empty,
                      kind |-> "passed", skip_reason |-> Empty]

_parse_suite(suite_el) ==
    [suite_name |-> suite_el.name,
     suite_stderr |-> suite_el.stderr,
     cases |-> [j \in 1..Len(suite_el.cases) |-> _parse_case(suite_el.cases[j])]]

\* ------------------------------------------------------------------------
\* junit_parser.py : classify_failures
\* ------------------------------------------------------------------------
RECURSIVE ClassifyCases(_, _)
\* the inner loop: the two counters after the cases of one suite
ClassifyCases(cases, acc) ==
    IF cases = << >> THEN acc
    ELSE LET case == Head(cases)
         IN  ClassifyCases(Tail(cases),
                 IF case.kind = "assertion" THEN [acc EXCEPT !.assertions = @ + 1]
                 ELSE IF case.kind = "exception" THEN [acc EXCEPT !.exceptions = @ + 1]
                 ELSE acc)

RECURSIVE ClassifySuites(_, _)
ClassifySuites(ss, acc) ==
    IF ss = << >> THEN acc
    ELSE ClassifySuites(Tail(ss), ClassifyCases(Head(ss).cases, acc))

classify_failures(ss) ==
    LET acc == ClassifySuites(ss, [assertions |-> 0, exceptions |-> 0])
    IN  [assertions |-> acc.assertions, exceptions |-> acc.exceptions,
         total_failed |-> acc.assertions + acc.exceptions]

\* ------------------------------------------------------------------------
\* junit_parser.py : detect_blast_radius
\* ------------------------------------------------------------------------
NoMessageKey == <<"(no message)">>

\* case["message"][:100] or case["detail"][:100] or "(no message)"
BlastKey(case) ==
    IF Take(case.message, BLAST_KEY_LEN) # Empty THEN Take(case.message, BLAST_KEY_LEN)
    ELSE IF Take(case.detail, BLAST_KEY_LEN) # Empty THEN Take(case.detail, BLAST_KEY_LEN)
    ELSE NoMessageKey

Failing(suite) == SelectSeq(suite.cases, LAMBDA c : c.status \in {"failed", "errored"})

RECURSIVE Buckets(_, _)
\* buckets.setdefault(key, []).append(case): a dict keeps its keys in insertion order
Buckets(failing, buckets) ==
    IF failing = << >> THEN buckets
    ELSE LET case == Head(failing)
             key == BlastKey(case)
         IN  IF \E b \in 1..Len(buckets) : buckets[b].key = key
             THEN LET b == CHOOSE b \in 1..Len(buckets) : buckets[b].key = key
                  IN  Buckets(Tail(failing),
                              [buckets EXCEPT ![b].cases = Append(@, case)])
             ELSE Buckets(Tail(failing), Append(buckets, [key |-> key, cases |-> <<case>>]))

\* a share that has to exceed the threshold
QualifiesAboveThreshold(n_cases, n_failing, thr) ==
    /\ n_cases >= MIN_BLAST_FAILURES
    /\ n_cases * thr.den > thr.num * n_failing

\* a test of the group's size alone
QualifiesBySizeOnly(n_cases, n_failing, thr) == n_cases >= MIN_BLAST_FAILURES

\* len(cases) >= 3 and len(cases) / len(failing) >= threshold
Qualifies(n_cases, n_failing, thr) ==
    /\ n_cases >= MIN_BLAST_FAILURES
    /\ n_cases * thr.den >= thr.num * n_failing

QualifiedName(c) == IF c.class_name # Empty THEN c.class_name \o <<".">> \o c.name ELSE c.name

BlastRecord(suite, failing, bucket) ==
    [suite_name |-> suite.suite_name,
     total_failures |-> Len(failing),
     shared_count |-> Len(bucket.cases),
     shared_message |-> bucket.key,
     suite_stderr |-> suite.suite_stderr,
     affected_tests |-> [j \in 1..Len(bucket.cases) |-> bucket.cases[j].name],
     affected_qualified_names |-> [j \in 1..Len(bucket.cases) |-> QualifiedName(bucket.cases[j])]]

RECURSIVE BlastsOfBuckets(_, _, _, _)
BlastsOfBuckets(suite, failing, buckets, thr) ==
    IF buckets = << >> THEN << >>
    ELSE (IF Qualifies(Len(Head(buckets).cases), Len(failing), thr)
          THEN <<BlastRecord(suite, failing, Head(buckets))>> ELSE << >>)
             \o BlastsOfBuckets(suite, failing, Tail(buckets), thr)

\* one iteration of the loop over suites
BlastsOfSuite(suite, thr) ==
    LET failing == Failing(suite)
    IN  IF Len(failing) < MIN_BLAST_FAILURES THEN << >>
        ELSE BlastsOfBuckets(suite, failing, Buckets(failing, << >>), thr)

\* ------------------------------------------------------------------------
\* JUnit inputs
\* ------------------------------------------------------------------------
MaxCases == 6

Child(tag, type, message, txt) == [tag |-> tag, type |-> type, message |-> message, text |-> txt]

Timeout30s == <<"Connection", "Timeout">>
Refused == <<"Refused">>

\* the children of the cases of a suite under blast-radius detection
BlastChildren ==
    { << >>,
      <<Child("failure", Empty, Timeout30s, Empty)>>,
      <<Child("error", Empty, Refused, Empty)>>,
      <<Child("failure", Empty, Empty, Timeout30s)>> }

CaseElement(j, children) ==
    [name |-> <<"test", ToString(j)>>, classname |-> <<"pkg", "Cls">>, children |-> children]

\* an element below the root or the root itself: its <testcase> children are
\* cases, its other element children are children
Element(tag, name, cases, children) ==
    [tag |-> tag, name |-> name, stderr |-> Empty, cases |-> cases, children |-> children]

SuiteElement(name, childrenSeq) ==
    Element("testsuite", name,
            [j \in 1..Len(childrenSeq) |-> CaseElement(j, childrenSeq[j])], << >>)

\* a document is what ET.fromstring makes of the text: a tree, a ParseError
\* ("malformed"), or a UnicodeEncodeError for a str that cannot be encoded as
\* UTF-8, such as one holding a lone surrogate ("unencodable")
Document(form, root) == [form |-> form, root |-> root]

NoRoot == Element("", Empty, << >>, << >>)

TestSuites(children) == Document("wellformed", Element("testsuites", Empty, << >>, children))

TestSuite(suite_el) == Document("wellformed", suite_el)

Thresholds == { [num |-> 3, den |-> 5], [num |-> 1, den |-> 4], [num |-> 1, den |-> 2] }

\* the element kinds whose kind is inferred: one case per suite
TypeAttrs ==
    { Empty, <<"junit", "AssertionError">>, <<"java", "IOException">>, <<"ComparisonFailure">>,
      <<"Error">>, <<"TimeoutExpired">>, <<"Custom">> }
Messages ==
    { Empty, <<"expected", "1">>, <<"AssertionError", "x">>, <<"IOException", "x">>,
      <<"Error", "x">>, <<"Timeout">> }

KindChildren ==
    { <<Child(tag, ty, msg, Empty)>> : tag \in {"failure", "error"}, ty \in TypeAttrs,
                                       msg \in Messages }
    \cup { <<Child("skipped", Empty, <<"later">>, Empty)>>,
           <<Child("error", Empty, Refused, Empty),
             Child("failure", <<"junit", "AssertionError">>, Empty, Empty)>> }

LogIdle ==
    /\ text = <<EmptyLine>>
    /\ max_lines = MAX_LINES
    /\ hard_limit = HARD_LIMIT
    /\ include_head = TRUE
    /\ include_tail = TRUE
    /\ lines = << >>
    /\ stage_index = << >>
    /\ match_data = << >>
    /\ scan_i = 0
    /\ merged = << >>
    /\ dedup_i = 0
    /\ seen = << >>
    /\ unique = << >>
    /\ parts = << >>
    /\ tail_block = << >>
    /\ section_budget = 0
    /\ fill_i = 0
    /\ used = 0
    /\ exhausted = FALSE
    /\ output_parts = << >>
    /\ result = << >>
    /\ path = "none"

JunitInit(doc, thr) ==
    /\ pc = "root"
    /\ LogIdle
    /\ FirstCall
    /\ FormatIdle
    /\ StageIdle
    /\ xml_content = doc
    /\ parse_result = "pending"
    /\ suite_elements = << >>
    /\ parse_i = 0
    /\ classification = [assertions |-> 0, exceptions |-> 0, total_failed |-> 0]
    /\ threshold = thr
    /\ suites = << >>
    /\ blast_i = 0
    /\ blasts = << >>

\* a second suite of the same report: three errors with one message, one pass
OtherSuite ==
    SuiteElement(<<"other">>, <<<<Child("error", Empty, Refused, Empty)>>,
                                << >>,
                                <<Child("error", Empty, Refused, Empty)>>,
                                <<Child("error", Empty, Refused, Empty)>>>>)

InitBlastSuites ==
    \E n \in 0..MaxCases : \E cs \in [1..n -> BlastChildren] : \E thr \in Thresholds :
        JunitInit(TestSuites(<<SuiteElement(<<"suite">>, cs), OtherSuite>>), thr)

DefaultThreshold == [num |-> 3, den |-> 5]

InitKindSuites ==
    \E ch \in KindChildren :
        JunitInit(TestSuite(SuiteElement(<<"kinds">>, <<ch>>)), DefaultThreshold)

\* documents of every shape: not XML, not encodable, another root, and a
\* <testsuites> root with up to MaxChildren children, suites or not
MaxChildren == 3

ChildKinds == {"mixed", "asserting", "passing", "properties"}

ChildAt(j, kind) ==
    LET name == <<"s", ToString(j)>>
    IN  CASE kind = "mixed" ->
               SuiteElement(name, << <<Child("failure", <<"junit", "AssertionError">>, Empty, Empty)>>,
                                     <<Child("error", <<"java", "IOException">>, Empty, Empty)>>,
                                     << >>,
                                     <<Child("skipped", Empty, <<"later">>, Empty)>> >>)
          [] kind = "asserting" ->
               SuiteElement(name, << <<Child("failure", Empty, <<"expected", "1">>, Empty)>> >>)
          [] kind = "passing" -> SuiteElement(name, << << >> >>)
          [] OTHER -> Element("properties", Empty, << >>, << >>)

ShapeDocuments ==
    { Document("malformed", NoRoot), Document("unencodable", NoRoot),
      Document("wellformed", Element("project", Empty, << >>, << >>)) }
    \cup { TestSuites([j \in 1..n |-> ChildAt(j, ks[j])]) :
              n \in 0..MaxChildren, ks \in [1..MaxChildren -> ChildKinds] }

InitShapeDocuments == \E doc \in ShapeDocuments : JunitInit(doc, DefaultThreshold)

InitJunit == InitBlastSuites \/ InitKindSuites \/ InitShapeDocuments

\* ------------------------------------------------------------------------
\* _format_section called on its own
\* ------------------------------------------------------------------------
\* the longest window: that of a classified line at the start of the log
MaxWindowLines == 11

\* lines after the window
WindowTrails == {0, 3}

\* the log of a window of n lines that starts with an error line
WindowLog(n, trail) == <<Txt(<<"ERROR:", "NPE">>)>> \o Fillers(1, n - 1 + trail)

WindowSection(n, repeat_count) ==
    [MatchedSection(TIER_ERROR, 0, n - 1, <<(<<"ERROR:", "NPE">>)>>, Empty)
        EXCEPT !.repeat_count = repeat_count]

InitFormat ==
    \E n \in 1..MaxWindowLines, tr \in WindowTrails, ml \in 0..(MaxWindowLines + 1) :
        /\ pc = "format"
        /\ LogIdle
        /\ JunitIdle
        /\ FirstCall
        /\ StageIdle
        /\ fs_section = WindowSection(n, 1)
        /\ fs_lines = WindowLog(n, tr)
        /\ fs_max_lines = ml
        /\ fs_formatted = << >>

FormatSection ==
    /\ pc = "format"
    /\ fs_formatted' = _format_section(fs_section, fs_lines, fs_max_lines)
    /\ pc' = "done"
    /\ UNCHANGED <<logVars, junitVars, callVars, stageVars, fs_section, fs_lines, fs_max_lines>>

\* ------------------------------------------------------------------------
\* get_stage_log
\* ------------------------------------------------------------------------
_MAX_LOG_BYTES == 10 * 1024 * 1024

\* the largest length a page reports
MaxOffset == 3

\* a text of chars characters outside HTML tags, with or without tags
Html(chars, tags) == [chars |-> chars, tags |-> tags]

\* _HTML_TAG_RE.sub("", html)
_strip_html(html) == [html EXCEPT !.tags = FALSE]

\* len(text)
TextLen(t) == t.chars

TruncationNote == [k |-> "stage_log_truncated"]

\* data.get(key, default): a key of the JSON object is << >> when absent
Get(field, default) == IF field = << >> THEN default ELSE field[1]

PageTexts ==
    { << >>, <<Html(1, TRUE)>>, <<Html(_MAX_LOG_BYTES \div 2, FALSE)>>,
      <<Html(_MAX_LOG_BYTES, TRUE)>> }

\* the JSON objects of the wfapi log endpoint
Pages ==
    [text : PageTexts,
     hasMore : {<< >>, <<TRUE>>, <<FALSE>>},
     length : {<< >>} \cup {<<l>> : l \in 0..MaxOffset}]

\* what _get raises: requests.HTTPError with a status, or another exception
GetFailures ==
    { [kind |-> "HTTPError", status |-> 404], [kind |-> "HTTPError", status |-> 500],
      [kind |-> "ConnectionError", status |-> 0] }

\* "".join(chunks): the chunks that are not empty, in order
JoinChunks(chunks) ==
    SelectSeq(chunks, LAMBDA c : c = TruncationNote \/ TextLen(c) > 0)

InitStage ==
    /\ pc = "page"
    /\ LogIdle
    /\ JunitIdle
    /\ FirstCall
    /\ FormatIdle
    /\ StageIdle

\* an iteration of the loop that goes on only while the length moves back
FetchPageWhileNotBehind ==
    /\ pc = "page"
    /\ \E data \in Pages :
          LET page_text == _strip_html(Get(data.text, Html(0, FALSE)))
              new_total == sl_total + TextLen(page_text)
              new_start == Get(data.length, 0)
          IN  /\ sl_requests' = Append(sl_requests, sl_start)
              /\ sl_responses' = Append(sl_responses, [kind |-> "ok", data |-> data])
              /\ sl_total' = new_total
              /\ IF new_total >= _MAX_LOG_BYTES
                 THEN /\ sl_chunks' = sl_chunks \o <<page_text, TruncationNote>>
                      /\ sl_result' = [kind |-> "returned", value |-> JoinChunks(sl_chunks')]
                      /\ pc' = "done"
                      /\ UNCHANGED sl_start
                 ELSE /\ sl_chunks' = Append(sl_chunks, page_text)
                      /\ IF ~Get(data.hasMore, FALSE) \/ new_start < sl_start
                         THEN /\ sl_result' = [kind |-> "returned",
                                               value |-> JoinChunks(sl_chunks')]
                              /\ pc' = "done"
                              /\ UNCHANGED sl_start
                         ELSE /\ sl_start' = new_start
                              /\ UNCHANGED <<pc, sl_result>>
    /\ UNCHANGED <<logVars, junitVars, callVars, formatVars>>

\* lines 364-388: one iteration of the loop with a page from _get
FetchPage ==
    /\ pc = "page"
    /\ \E data \in Pages :
          LET page_text == _strip_html(Get(data.text, Html(0, FALSE)))
              new_total == sl_total + TextLen(page_text)
              new_start == Get(data.length, 0)
          IN  /\ sl_requests' = Append(sl_requests, sl_start)
              /\ sl_responses' = Append(sl_responses, [kind |-> "ok", data |-> data])
              /\ sl_total' = new_total
              /\ IF new_total >= _MAX_LOG_BYTES
                 THEN /\ sl_chunks' = sl_chunks \o <<page_text, TruncationNote>>
                      /\ sl_result' = [kind |-> "returned", value |-> JoinChunks(sl_chunks')]
                      /\ pc' = "done"
                      /\ UNCHANGED sl_start
                 ELSE /\ sl_chunks' = Append(sl_chunks, page_text)
                      /\ IF ~Get(data.hasMore, FALSE) \/ new_start <= sl_start
                         THEN /\ sl_result' = [kind |-> "returned",
                                               value |-> JoinChunks(sl_chunks')]
                              /\ pc' = "done"
                              /\ UNCHANGED sl_start
                         ELSE /\ sl_start' = new_start
                              /\ UNCHANGED <<pc, sl_result>>
    /\ UNCHANGED <<logVars, junitVars, callVars, formatVars>>

\* lines 368-373: _get raises; only an HTTPError with status 404 is turned
\* into the empty string
FetchFails ==
    /\ pc = "page"
    /\ \E exc \in GetFailures :
          /\ sl_requests' = Append(sl_requests, sl_start)
          /\ sl_responses' = Append(sl_responses, exc)
          /\ sl_result' = IF exc.kind = "HTTPError" /\ exc.status = 404
                          THEN [kind |-> "returned", value |-> << >>]
                          ELSE [kind |-> "raised", value |-> <<exc>>]
    /\ pc' = "done"
    /\ UNCHANGED <<sl_start, sl_total, sl_chunks>>
    /\ UNCHANGED <<logVars, junitVars, callVars, formatVars>>

NextStage == FetchPage \/ FetchFails

Init == InitLog \/ InitJunit \/ InitFormat \/ InitStage

\* parse_junit_xml, lines 49-58: ET.fromstring, of which only ParseError is
\* caught, and the choice of the elements by the root's tag
ParseRoot ==
    /\ pc = "root"
    /\ IF xml_content.form = "unencodable"
       THEN parse_result' = "raised" /\ pc' = "done" /\ UNCHANGED suite_elements
       ELSE IF xml_content.form = "malformed"
       THEN parse_result' = "None" /\ pc' = "done" /\ UNCHANGED suite_elements
       ELSE IF xml_content.root.tag = "testsuites"
       THEN /\ suite_elements' = xml_content.root.children
            /\ parse_result' = IF suite_elements' = << >> THEN "list" ELSE "pending"
            /\ pc' = IF suite_elements' = << >> THEN "classify" ELSE "parse"
       ELSE IF xml_content.root.tag = "testsuite"
       THEN /\ suite_elements' = <<xml_content.root>>
            /\ parse_result' = "pending"
            /\ pc' = "parse"
       ELSE parse_result' = "None" /\ pc' = "done" /\ UNCHANGED suite_elements
    /\ UNCHANGED <<xml_content, parse_i, classification, threshold, suites, blast_i, blasts>>
    /\ UNCHANGED <<logVars, callVars, formatVars, stageVars>>

\* a loop that makes a suite dict of every child of the root
ParseSuiteEveryChild ==
    /\ pc = "parse"
    /\ parse_i < Len(suite_elements)
    /\ suites' = Append(suites, _parse_suite(suite_elements[parse_i + 1]))
    /\ parse_i' = parse_i + 1
    /\ parse_result' = IF parse_i' = Len(suite_elements) THEN "list" ELSE "pending"
    /\ pc' = IF parse_i' = Len(suite_elements) THEN "classify" ELSE "parse"
    /\ UNCHANGED <<xml_content, suite_elements, classification, threshold, blast_i, blasts>>
    /\ UNCHANGED <<logVars, callVars, formatVars, stageVars>>

\* parse_junit_xml, lines 60-66: one element of the loop, and the return after
\* the last
ParseSuite ==
    /\ pc = "parse"
    /\ parse_i < Len(suite_elements)
    /\ LET suite_el == suite_elements[parse_i + 1]
       IN  suites' = IF suite_el.tag # "testsuite" THEN suites
                     ELSE Append(suites, _parse_suite(suite_el))
    /\ parse_i' = parse_i + 1
    /\ parse_result' = IF parse_i' = Len(suite_elements) THEN "list" ELSE "pending"
    /\ pc' = IF parse_i' = Len(suite_elements) THEN "classify" ELSE "parse"
    /\ UNCHANGED <<xml_content, suite_elements, classification, threshold, blast_i, blasts>>
    /\ UNCHANGED <<logVars, callVars, formatVars, stageVars>>

\* classify_failures over the parsed suites; detect_blast_radius over no suite
\* returns its empty list at once
ClassifyFailures ==
    /\ pc = "classify"
    /\ classification' = classify_failures(suites)
    /\ pc' = IF suites = << >> THEN "done" ELSE "blast"
    /\ UNCHANGED <<xml_content, parse_result, suite_elements, parse_i, threshold, suites,
                   blast_i, blasts>>
    /\ UNCHANGED <<logVars, callVars, formatVars, stageVars>>

\* detect_blast_radius: one suite of the loop
BlastSuite ==
    /\ pc = "blast"
    /\ blast_i < Len(suites)
    /\ blasts' = blasts \o BlastsOfSuite(suites[blast_i + 1], threshold)
    /\ blast_i' = blast_i + 1
    /\ pc' = IF blast_i' = Len(suites) THEN "done" ELSE "blast"
    /\ UNCHANGED <<xml_content, parse_result, suite_elements, parse_i, classification,
                   threshold, suites>>
    /\ UNCHANGED <<logVars, callVars, formatVars, stageVars>>

NextLog ==
    \/ Start
    \/ ScanStep
    \/ NoMatchFallback
    \/ DedupStep
    \/ Reserve
    \/ FillStep
    \/ Assemble

NextJunit ==
    \/ ParseRoot
    \/ ParseSuite
    \/ ClassifyFailures
    \/ BlastSuite

NextFormat == FormatSection

Next == NextLog \/ NextJunit \/ NextFormat \/ NextStage

Spec == Init /\ [][Next]_vars

\* get_error_log alone, and the JUnit functions alone
SpecLog == InitLog /\ [][NextLog]_vars

SpecJunit == InitJunit /\ [][NextJunit]_vars

\* _format_section alone
SpecFormat == InitFormat /\ [][NextFormat]_vars

\* get_stage_log against every server
SpecStage == InitStage /\ [][NextStage]_vars

NextRepeated == NextLog \/ CallAgain

\* get_error_log called twice with the same arguments
SpecRepeated == InitRepeated /\ [][NextRepeated]_vars

\* the lines of the returned string, as the tests count them
OutLines == SplitLines(result)

TypeOK ==
    /\ pc \in {"start", "scan", "nomatch", "dedup", "reserve", "fill", "root", "parse", "classify", "blast",
              "format", "page",
              "done"}
    /\ result # << >> => pc = "done"

\* ------------------------------------------------------------------------
\* Vocabulary of the properties
\* ------------------------------------------------------------------------
Returned == pc = "done" /\ path # "none"

IsSectionHeader(o) == o.k = "section"

\* positions of the output lines that are the header of a section starting at start
HeaderPositions(out, start) ==
    { p \in 1..Len(out) : IsSectionHeader(out[p]) /\ out[p].near = start + 1 }

TierHeaderPositions(out, tier) ==
    { p \in 1..Len(out) : IsSectionHeader(out[p]) /\ out[p].tier = tier }

\* the indices of the classified lines of a tier
MatchesOfTier(tier) ==
    { match_data[j].idx : j \in { h \in 1..Len(match_data) : match_data[h].tier = tier } }

\* the sections of _scan's result that hold line i
SectionsHolding(i) ==
    { j \in 1..Len(merged) : merged[j].start <= i /\ i <= merged[j].end }

\* C1: on every return path the returned string has at most hard_limit + 1 lines.
C1_AtMostHardLimitPlusOne == Returned => Len(OutLines) <= hard_limit + 1

\* C2: a log with exactly one CRITICAL line: the output has the header of the
\* section that holds that line, whatever the budget.
C2_CriticalHeaderPresent ==
    (Returned /\ path # "empty" /\ Cardinality(MatchesOfTier(TIER_CRITICAL)) = 1)
        => \A i \in MatchesOfTier(TIER_CRITICAL) :
               \E j \in SectionsHolding(i) : HeaderPositions(OutLines, merged[j].start) # {}

\* lines spent by the CRITICAL and ERROR blocks of _budget_fill
RECURSIVE CostOfTiers(_, _)
CostOfTiers(blocks, tiers) ==
    IF blocks = << >> THEN 0
    ELSE (IF Head(blocks)[1].tier \in tiers THEN Len(SplitLines(Head(blocks))) ELSE 0)
             + CostOfTiers(Tail(blocks), tiers)

ErrorsExhaustBudget ==
    section_budget - CostOfTiers(output_parts, {TIER_CRITICAL, TIER_ERROR}) < MIN_CLIP_LINES + 1

\* C3: a WARNING block is in the output only after the blocks of all deduplicated
\* CRITICAL and ERROR sections, and not at all when those exhaust the budget.
C3_WarningsOnlyAfterErrors ==
    Returned =>
        /\ \A p \in TierHeaderPositions(OutLines, TIER_WARNING) :
               \A j \in 1..Len(unique) :
                   unique[j].tier \in {TIER_CRITICAL, TIER_ERROR}
                       => \E q \in HeaderPositions(OutLines, unique[j].start) :
                              q < p /\ OutLines[q].tier = unique[j].tier
        /\ (path = "assembled" /\ ErrorsExhaustBudget)
               => TierHeaderPositions(OutLines, TIER_WARNING) = {}

\* a report whose budget the errors exhaust, for a log whose WARNING section
\* comes before an ERROR or CRITICAL section
W3_WarningBeforeErrorsExhausted ==
    /\ Returned
    /\ path = "assembled"
    /\ ErrorsExhaustBudget
    /\ \E w, e \in 1..Len(unique) :
           /\ unique[w].tier = TIER_WARNING
           /\ unique[e].tier \in {TIER_CRITICAL, TIER_ERROR}
           /\ unique[w].start < unique[e].start

\* ---- deduplication
DedupDone ==
    \/ pc \in {"reserve", "fill"}
    \/ pc = "done" /\ path \in {"small_budget", "no_parts", "assembled"}

MatchIndices == { match_data[j].idx : j \in 1..Len(match_data) }

StageOfLine(i) == _resolve_stage(stage_index, i)

\* two raw lines that differ in a leading ISO timestamp and in nothing else
TimestampTwins(l1, l2) ==
    /\ l1 # l2
    /\ l1 # << >> /\ l2 # << >>
    /\ Head(l1) \in IsoTimestampSyms /\ Head(l2) \in IsoTimestampSyms
    /\ Tail(l1) = Tail(l2)

TwinMatches ==
    { ij \in MatchIndices \X MatchIndices :
          /\ ij[1] < ij[2]
          /\ TimestampTwins(lines[ij[1] + 1].v, lines[ij[2] + 1].v)
          /\ StageOfLine(ij[1]) = StageOfLine(ij[2]) }

\* line i is held by a section that was kept as, or folded into, unique[u]
RetainedIn(i, u) ==
    \E s \in SectionsHolding(i) :
        fingerprint(merged[s]) \in DOMAIN seen /\ seen[fingerprint(merged[s])] = u

CollapsedWithCount(i, j) ==
    \E u \in 1..Len(unique) :
        unique[u].repeat_count >= 2 /\ RetainedIn(i, u) /\ RetainedIn(j, u)

\* line i is the only classified line of its section
AloneInSection(i) ==
    \A s \in SectionsHolding(i) :
        { m \in MatchIndices : merged[s].start <= m /\ m <= merged[s].end } = {i}

\* C4 as stated: timestamp twins of one stage always end up in one retained
\* section with repeat_count >= 2, also when their windows merge in _scan.
C4_TwinsAlwaysCollapse ==
    DedupDone => \A ij \in TwinMatches : CollapsedWithCount(ij[1], ij[2])

\* C4 as amended: timestamp twins of one stage, each the only classified line of
\* its section, end up in one retained section with repeat_count >= 2.
C4_LoneTwinsCollapse ==
    DedupDone =>
        \A ij \in TwinMatches :
            (AloneInSection(ij[1]) /\ AloneInSection(ij[2])) => CollapsedWithCount(ij[1], ij[2])

W4_LoneTwinsDeduplicated ==
    /\ DedupDone
    /\ \E ij \in TwinMatches :
           /\ AloneInSection(ij[1]) /\ AloneInSection(ij[2])
           /\ StageOfLine(ij[1]) # Empty

\* sections a < b of _scan's result were folded into the same retained section
Collapsed(a, b) ==
    /\ a < b /\ b <= dedup_i
    /\ seen[fingerprint(merged[a])] = seen[fingerprint(merged[b])]

SectionToken(s) == _extract_exception_token(BestKeyLine(s))

SectionPairs == { ab \in (1..Len(merged)) \X (1..Len(merged)) : ab[1] < ab[2] /\ ab[2] <= dedup_i }

\* C5: sections with different exception tokens, or with the same token and
\* different stages, are never collapsed by _deduplicate.
C5_TokenOrStageKeepsApart ==
    \A ab \in SectionPairs :
        (\/ SectionToken(merged[ab[1]]) # SectionToken(merged[ab[2]])
         \/ merged[ab[1]].phase # merged[ab[2]].phase)
            => ~Collapsed(ab[1], ab[2])

IdentityString(s) ==
    SectionToken(s) \o <<"|">> \o s.phase \o <<"|">> \o Take(BestKeyLine(s), MSG_PREFIX_LEN)

Suffix(ls, k) == SubSeq(ls, Len(ls) - k + 1, Len(ls))

\* C7: nothing classifies: the output has the no-match notice, and after the
\* notice lines it is exactly the last min(max_lines, n) raw lines.
C7_NoMatchShowsLastLines ==
    (Returned /\ path = "nomatch") =>
        LET n == Len(lines)
            k == Min(max_lines, n)
            body == Len(OutLines) - k
        IN  /\ \E p \in 1..Len(OutLines) : OutLines[p] = NoMatchNotice(max_lines)
            /\ body >= 0
            /\ Suffix(OutLines, k) = Suffix(lines, k)
            /\ \A p \in 1..body : OutLines[p].k # "text" \/ OutLines[p] = EmptyLine

\* the output holds the header of the head anchor followed by the first
\* min(5, n) raw lines
HeadAnchorPresent ==
    LET head == Take(lines, LOG_HEAD_LINES)
    IN  \E p \in 1..Len(result) :
            /\ result[p] = HeadHeader
            /\ p + Len(head) <= Len(result)
            /\ SubSeq(result, p + 1, p + Len(head)) = head

\* the output holds the header of the tail anchor followed by the last
\* min(30, n) raw lines
TailAnchorPresent ==
    LET tail == Suffix(lines, Min(LOG_TAIL_LINES, Len(lines)))
    IN  \E p \in 1..Len(result) :
            /\ result[p] = TailHeader(Len(tail))
            /\ p + Len(tail) <= Len(result)
            /\ SubSeq(result, p + 1, p + Len(tail)) = tail

AnchorsAsConfigured ==
    /\ HeadAnchorPresent <=> include_head
    /\ TailAnchorPresent <=> include_tail

Truncated == result[Len(result)] = HardLimitNotice(hard_limit)

\* C8 as stated: with a classified line, the anchors are in the output exactly
\* as configured, for every budget.
C8_AnchorsForEveryBudget ==
    (Returned /\ path \in {"small_budget", "no_parts", "assembled"}) => AnchorsAsConfigured

\* C8 as amended: the same when the budget left for sections is at least
\* MIN_CLIP_LINES + 1 and the hard-limit guard does not cut the report.
C8_AnchorsWhenAssembledUncut ==
    (Returned /\ path = "assembled" /\ ~Truncated) => AnchorsAsConfigured

\* both anchors in a report whose sections used up the budget
W8_AnchorsWithExhaustedBudget ==
    /\ Returned
    /\ path = "assembled"
    /\ ~Truncated
    /\ include_head /\ include_tail
    /\ exhausted
    /\ Len(lines) > LOG_TAIL_LINES

\* ---- JUnit
IsFailing(c) == c.status \in {"failed", "errored"}

\* the failed/errored cases of parsed suite s whose message key is key, in
\* document order
GroupOf(s, key) == SelectSeq(suites[s].cases, LAMBDA c : IsFailing(c) /\ BlastKey(c) = key)

FailingCount(s) == Cardinality({j \in 1..Len(suites[s].cases) : IsFailing(suites[s].cases[j])})

GroupKeys(s) ==
    {BlastKey(suites[s].cases[j]) : j \in {h \in 1..Len(suites[s].cases) : IsFailing(suites[s].cases[h])}}

RecordsFor(s, key) ==
    {p \in 1..Len(blasts) : /\ blasts[p].suite_name = suites[s].suite_name
                            /\ blasts[p].shared_message = key}

GroupQualifies(s, key) ==
    /\ FailingCount(s) >= 3
    /\ Len(GroupOf(s, key)) >= 3
    /\ Len(GroupOf(s, key)) * threshold.den >= threshold.num * FailingCount(s)

BlastDone == pc = "done" /\ suites # << >>

\* C9: a message group of a suite has a record iff the suite has >= 3 failing
\* cases, the group has >= 3 members and its share is >= threshold; there is
\* one record per qualifying group, with shared_count the group size,
\* total_failures the failing count of the suite, and affected_tests the names
\* of the group's cases in document order; no record belongs to no group.
C9_BlastRecordIffQualifies ==
    BlastDone =>
        /\ \A s \in 1..Len(suites) : \A key \in GroupKeys(s) :
              LET g == GroupOf(s, key)
              IN  /\ Cardinality(RecordsFor(s, key)) = (IF GroupQualifies(s, key) THEN 1 ELSE 0)
                  /\ \A p \in RecordsFor(s, key) :
                        /\ blasts[p].shared_count = Len(g)
                        /\ blasts[p].total_failures = FailingCount(s)
                        /\ blasts[p].affected_tests = [j \in 1..Len(g) |-> g[j].name]
        /\ \A p \in 1..Len(blasts) :
              \E s \in 1..Len(suites) : \E key \in GroupKeys(s) : p \in RecordsFor(s, key)

\* a suite with a passing case, a group exactly at the threshold and a group
\* below it
W9_GroupAtThresholdWithPassingCase ==
    /\ BlastDone
    /\ \E s \in 1..Len(suites) :
          /\ \E j \in 1..Len(suites[s].cases) : suites[s].cases[j].status = "passed"
          /\ \E key \in GroupKeys(s) :
                /\ RecordsFor(s, key) # {}
                /\ Len(GroupOf(s, key)) * threshold.den = threshold.num * FailingCount(s)
          /\ \E key \in GroupKeys(s) : RecordsFor(s, key) = {}

\* the <failure> or <error> element a case is parsed from
FailingElement(case_el) ==
    IF HasChild(case_el, "failure") THEN Find(case_el, "failure") ELSE Find(case_el, "error")

\* the elements the suite dicts were parsed from
TestsuiteElements == SelectSeq(suite_elements, LAMBDA e : e.tag = "testsuite")

ParsedCases ==
    {<<s, j>> \in (1..Len(suites)) \X (1..MaxCases) : j <= Len(suites[s].cases)}

\* C10: a failing case whose element's type attribute matches the assertion
\* pattern has kind assertion; one whose type matches the exception pattern
\* and not the assertion pattern has kind exception, whatever the tag and the
\* message.
C10_TypeAttributeDecidesKind ==
    \A sj \in ParsedCases :
        LET c == suites[sj[1]].cases[sj[2]]
            el == FailingElement(TestsuiteElements[sj[1]].cases[sj[2]])
        IN  IsFailing(c) =>
                /\ Search(AssertionTypeSyms, el.type) => c.kind = "assertion"
                /\ (Search(ExceptionTypeSyms, el.type) /\ ~Search(AssertionTypeSyms, el.type))
                      => c.kind = "exception"

\* a <failure> whose type is an exception and whose message names an assertion
W10_ExceptionTypeUnderFailureTag ==
    \E sj \in ParsedCases :
        LET c == suites[sj[1]].cases[sj[2]]
            case_el == TestsuiteElements[sj[1]].cases[sj[2]]
        IN  /\ IsFailing(c)
            /\ HasChild(case_el, "failure")
            /\ Search(ExceptionTypeSyms, FailingElement(case_el).type)
            /\ ~Search(AssertionTypeSyms, FailingElement(case_el).type)
            /\ Search(AssertionTypeSyms, FailingElement(case_el).message)
            /\ c.kind = "exception"

\* the type attribute is absent or matches neither type pattern
TypeInconclusive(el) ==
    ~Search(AssertionTypeSyms, el.type) /\ ~Search(ExceptionTypeSyms, el.type)

CombinedText(el) == el.type \o <<"SP">> \o el.message

TagDefault(el) == IF el.tag = "failure" THEN "assertion" ELSE "exception"

\* the kind of a case whose type is inconclusive, the combined text being
\* searched for the assertion pattern and for the exception words exc
KindFromCombined(el, exc) ==
    IF Search(AssertionTypeSyms, CombinedText(el)) THEN "assertion"
    ELSE IF Search(exc, CombinedText(el)) THEN "exception"
    ELSE TagDefault(el)

\* C11 as stated: with an inconclusive type attribute the combined type+message
\* text is checked against the same two patterns as the type attribute, and the
\* element tag decides only when both are inconclusive.
C11_CombinedAgainstSamePatterns ==
    \A sj \in ParsedCases :
        LET c == suites[sj[1]].cases[sj[2]]
            el == FailingElement(TestsuiteElements[sj[1]].cases[sj[2]])
        IN  (IsFailing(c) /\ TypeInconclusive(el))
                => c.kind = KindFromCombined(el, ExceptionTypeSyms)

\* C11 as amended: the combined text is checked against the assertion pattern
\* and against the narrower message pattern for exceptions (a word ending in
\* Exception or Error, Timeout or Refused at a word end); the element tag
\* decides only when both are inconclusive.
C11_CombinedAgainstMessagePattern ==
    \A sj \in ParsedCases :
        LET c == suites[sj[1]].cases[sj[2]]
            el == FailingElement(TestsuiteElements[sj[1]].cases[sj[2]])
        IN  (IsFailing(c) /\ TypeInconclusive(el))
                => c.kind = KindFromCombined(el, ExceptionMsgSyms)

\* a <failure> without type whose message has a bare "Error": the type pattern
\* for exceptions matches the combined text, the kind is the tag's default
W11_BareErrorFallsToTag ==
    \E sj \in ParsedCases :
        LET c == suites[sj[1]].cases[sj[2]]
            el == FailingElement(TestsuiteElements[sj[1]].cases[sj[2]])
        IN  /\ IsFailing(c)
            /\ TypeInconclusive(el)
            /\ el.tag = "failure"
            /\ Search(ExceptionTypeSyms, CombinedText(el))
            /\ ~Search(ExceptionMsgSyms, CombinedText(el))
            /\ c.kind = "assertion"

\* ---- parse_junit_xml
ParseReturned == parse_result # "pending"

IsJunitRoot(doc) == doc.form = "wellformed" /\ doc.root.tag \in {"testsuite", "testsuites"}

\* C12: parse_junit_xml never raises: it returns None for text that is not
\* well-formed XML or whose root is neither <testsuite> nor <testsuites>, an
\* empty list for <testsuites> without <testsuite> children, a list of suite
\* records otherwise.
C12_NeverRaises ==
    (xml_content.form # "none" /\ ParseReturned) =>
        /\ parse_result # "raised"
        /\ ~IsJunitRoot(xml_content) => parse_result = "None"
        /\ IsJunitRoot(xml_content) => parse_result = "list"
        /\ (IsJunitRoot(xml_content) /\ TestsuiteElements = << >>) => suites = << >>

CountKind(suite, kind) ==
    Cardinality({j \in 1..Len(suite.cases) : suite.cases[j].kind = kind})

RECURSIVE SumKind(_, _)
SumKind(ss, kind) ==
    IF ss = << >> THEN 0 ELSE CountKind(Head(ss), kind) + SumKind(Tail(ss), kind)

Classified == pc \in {"blast", "done"} /\ parse_result = "list"

\* C13: a <testsuites> root with k <testsuite> children gives exactly k suite
\* records in document order, other children being skipped, and
\* classify_failures over them is the sum over the suites of their assertion
\* and exception counts.
C13_SuitesInOrderAndCounted ==
    (xml_content.form = "wellformed" /\ xml_content.root.tag = "testsuites") =>
        /\ parse_result = "list" =>
              /\ Len(suites) = Len(TestsuiteElements)
              /\ \A q \in 1..Len(suites) :
                    /\ suites[q].suite_name = TestsuiteElements[q].name
                    /\ Len(suites[q].cases) = Len(TestsuiteElements[q].cases)
        /\ Classified =>
              /\ classification.assertions = SumKind(suites, "assertion")
              /\ classification.exceptions = SumKind(suites, "exception")
              /\ classification.total_failed =
                     SumKind(suites, "assertion") + SumKind(suites, "exception")

\* two suites around a child that is no suite, with failures of both kinds and
\* cases of neither
W13_SuitesAroundOtherChild ==
    /\ Classified
    /\ xml_content.form = "wellformed" /\ xml_content.root.tag = "testsuites"
    /\ Len(suite_elements) = 3
    /\ suite_elements[2].tag # "testsuite"
    /\ Len(suites) = 2
    /\ classification.assertions >= 2
    /\ classification.exceptions >= 1
    /\ \E j \in 1..Len(suites[1].cases) : suites[1].cases[j].kind = "skipped"

\* ---- summary line
SummaryPaths == {"small_budget", "no_parts", "assembled"}

RetainedOfTier(tier) == Cardinality({j \in 1..Len(unique) : unique[j].tier = tier})

\* the summary line the claim describes: the line count of the input, the
\* retained sections by tier, sections before minus sections after deduplication
DescribedSummary ==
    [k |-> "summary", total |-> Len(SplitLines(text)),
     n_critical |-> RetainedOfTier(TIER_CRITICAL),
     n_error |-> RetainedOfTier(TIER_ERROR),
     n_warning |-> RetainedOfTier(TIER_WARNING),
     n_dupes |-> Len(merged) - Len(unique)]

\* C14 as stated: with a classified line, the first line of the output is the
\* summary line with these counts.
C14_SummaryLineFirst ==
    (Returned /\ path \in SummaryPaths) => OutLines[1] = DescribedSummary

\* C14 as amended: the same for hard_limit >= 1.
C14_SummaryLineFirstUnderLimit ==
    (Returned /\ path \in SummaryPaths /\ hard_limit >= 1) => OutLines[1] = DescribedSummary

\* a report with collapsed duplicates that the hard-limit guard cut
W14_SummaryOfCutReportWithDuplicates ==
    /\ Returned
    /\ path = "assembled"
    /\ hard_limit >= 1
    /\ Truncated
    /\ Len(merged) > Len(unique)
    /\ OutLines[1] = DescribedSummary

\* ---- stage lookup
\* the marks of the index at or before line i
MarksUpTo(i) == {j \in 1..Len(stage_index) : stage_index[j].idx <= i}

\* the label of the mark with the greatest line number <= i, "" without one
NearestPriorLabel(i) ==
    IF MarksUpTo(i) = {} THEN Empty
    ELSE stage_index[CHOOSE j \in MarksUpTo(i) :
                         \A h \in MarksUpTo(i) : stage_index[h].idx <= stage_index[j].idx].name

IndexAscending ==
    \A j \in 1..(Len(stage_index) - 1) : stage_index[j].idx < stage_index[j + 1].idx

\* C15: over the index of a log, ascending by line number, _resolve_stage gives
\* for every line index the label of the mark with the greatest line number
\* at or before it, and "" when the index is empty or every mark lies after it.
C15_ResolveStageIsFloor ==
    /\ IndexAscending
    /\ \A i \in 0..Len(lines) : _resolve_stage(stage_index, i) = NearestPriorLabel(i)

\* an index of three marks, a classified line between the second and the
\* third, and a classified line that is itself a mark
W15_LineBetweenMarks ==
    /\ pc = "dedup"
    /\ Len(stage_index) >= 3
    /\ \E m \in MatchIndices :
          stage_index[2].idx < m /\ m < stage_index[3].idx
    /\ \E m \in MatchIndices : \E j \in 1..Len(stage_index) : stage_index[j].idx = m

FallbackPaths == {"nomatch", "small_budget", "no_parts"}

\* what truncate_tail(text, max_lines) contributed to a fallback: the returned
\* string after its first line (notice or summary) and the blank line
TailOfFallback == SubSeq(result, 3, Len(result))

\* C17: truncate_tail(text, n) is text itself when text has at most n lines,
\* and otherwise one notice line and exactly the last n lines of text, n + 1
\* lines in all, for every n >= 0.
C17_TruncateTailKeepsLastN ==
    (Returned /\ path \in FallbackPaths) =>
        LET all == SplitLines(text)
            n == max_lines
        IN  IF Len(all) <= n THEN TailOfFallback = text
            ELSE /\ Len(SplitLines(TailOfFallback)) = n + 1
                 /\ TailOfFallback[1] = TruncNotice(n, Len(all))
                 /\ SubSeq(TailOfFallback, 2, n + 1) = Suffix(all, n)

\* ---- empty log
\* the text has no character other than white space and line breaks
OnlyWhitespace ==
    \A i \in 1..Len(text) : \A j \in 1..Len(text[i].v) : text[i].v[j] = "SP"

\* C18: an empty or whitespace-only text gives the fixed empty-log message under
\* every configuration, and the call neither scans nor takes the no-match
\* fallback.
C18_EmptyLogShortCircuits ==
    (xml_content.form = "none" /\ OnlyWhitespace /\ pc # "start") =>
        /\ pc = "done"
        /\ path = "empty"
        /\ result = <<EmptyLogMessage>>
        /\ lines = << >> /\ match_data = << >> /\ merged = << >>

\* a text of blanks and line breaks, answered under a budget of no lines
W18_WhitespaceOnlyUnderZeroBudget ==
    /\ Returned
    /\ OnlyWhitespace
    /\ Len(text) > 1
    /\ max_lines = 0
    /\ result = <<EmptyLogMessage>>

\* ---- _scan
ScanDone == match_data # << >> /\ scan_i = Len(match_data)

\* C19: after _scan the sections are in strictly ascending start order, each
\* lies within the log with start <= end, consecutive sections have at least
\* one uncovered line between them, and every classified line index lies in
\* exactly one section.
C19_SectionsOrderedAndDisjoint ==
    ScanDone =>
        /\ \A j \in 1..Len(merged) :
              /\ 0 <= merged[j].start
              /\ merged[j].start <= merged[j].end
              /\ merged[j].end <= Len(lines) - 1
        /\ \A j \in 1..(Len(merged) - 1) :
              /\ merged[j].start < merged[j + 1].start
              /\ merged[j].end + 1 < merged[j + 1].start
        /\ \A m \in MatchIndices : Cardinality(SectionsHolding(m)) = 1

\* two classified lines whose windows are exactly adjacent, in one section
W19_AdjacentWindowsMerged ==
    /\ ScanDone
    /\ \E m1, m2 \in MatchIndices :
          /\ m2 - m1 = 2 * CONTEXT_LINES + 1
          /\ SectionsHolding(m1) = SectionsHolding(m2)
          /\ SectionsHolding(m1) # {}

\* the classified lines section j has absorbed among the first scan_i of them
Absorbed(j) ==
    {h \in 1..scan_i : merged[j].start <= match_data[h].idx /\ match_data[h].idx <= merged[j].end}

\* C20: at every step of the merge and in its result, the tier of a section is
\* the most severe tier among the classified lines it has absorbed; as lines
\* are only added, a merge never makes the tier less severe.
C20_TierIsMostSevereAbsorbed ==
    \A j \in 1..Len(merged) :
        /\ Absorbed(j) # {}
        /\ \E h \in Absorbed(j) : match_data[h].tier = merged[j].tier
        /\ \A h \in Absorbed(j) : TierRank(merged[j].tier) <= TierRank(match_data[h].tier)

\* a section that began as a WARNING, was raised to CRITICAL and then absorbed
\* an ERROR
W20_RaisedThenKept ==
    /\ pc = "dedup"
    /\ \E j \in 1..Len(merged) : \E a, b, c \in Absorbed(j) :
          /\ a < b /\ b < c
          /\ match_data[a].tier = TIER_WARNING
          /\ match_data[b].tier = TIER_CRITICAL
          /\ match_data[c].tier = TIER_ERROR
          /\ merged[j].tier = TIER_CRITICAL

\* the absorbed lines of section j that resolve to a non-empty stage
StagedAbsorbed(j) == {h \in Absorbed(j) : StageOfLine(match_data[h].idx) # Empty}

\* C21: at every step of the merge a section carries the stage of the last
\* line it absorbed that resolved to a non-empty stage, and no stage when none
\* did: a merge sets the label to the new line's stage when that is non-empty
\* and leaves it unchanged otherwise.
C21_PhaseOfLastStagedLine ==
    \A j \in 1..Len(merged) :
        IF StagedAbsorbed(j) = {} THEN merged[j].phase = Empty
        ELSE LET last == CHOOSE h \in StagedAbsorbed(j) : \A g \in StagedAbsorbed(j) : g <= h
             IN  merged[j].phase = StageOfLine(match_data[last].idx)

\* a section that absorbed a line of stage S and then a line that resolves to
\* the empty stage, and kept S
W21_PhaseKeptOverEmptyStage ==
    /\ pc = "dedup"
    /\ \E j \in 1..Len(merged) : \E a, b \in Absorbed(j) :
          /\ a < b
          /\ StageOfLine(match_data[a].idx) # Empty
          /\ StageOfLine(match_data[b].idx) = Empty
          /\ merged[j].phase = StageOfLine(match_data[a].idx)

\* ---- _deduplicate
\* the positions, among the sections visited so far, of the first section of
\* each fingerprint
FirstOccurrences ==
    SelectSeq([j \in 1..dedup_i |-> j],
              LAMBDA j : \A h \in 1..(j - 1) : fingerprint(merged[h]) # fingerprint(merged[j]))

\* C22: _deduplicate returns, in the original order, the first section of each
\* distinct fingerprint; the fingerprints of the returned sections are pairwise
\* distinct, every repeat_count is at least 1, and the repeat_counts add up to
\* the number of input sections.
C22_FirstOfEachFingerprint ==
    /\ Len(unique) = Len(FirstOccurrences)
    /\ \A k \in 1..Len(unique) :
          /\ k <= Len(FirstOccurrences)
                 => [unique[k] EXCEPT !.repeat_count = 1] = merged[FirstOccurrences[k]]
          /\ unique[k].repeat_count >= 1
          /\ \A h \in 1..Len(unique) :
                 h # k => fingerprint(unique[h]) # fingerprint(unique[k])
    /\ SumRepeats(unique) = dedup_i

\* three sections of which the first and the last share a fingerprint
W22_DuplicateAfterAnotherSection ==
    /\ pc = "reserve"
    /\ Len(merged) = 3
    /\ Len(unique) = 2
    /\ unique[1].repeat_count = 2
    /\ unique[2] = merged[2]

\* ---- _budget_fill
FillStarted ==
    \/ pc = "fill"
    \/ pc = "done" /\ path \in {"no_parts", "assembled"}

\* section a comes before section b in the sequence "all CRITICAL sections in
\* original order, then all ERROR sections, then all WARNING sections"
Precedes(a, b) ==
    \/ TierRank(unique[a].tier) < TierRank(unique[b].tier)
    \/ unique[a].tier = unique[b].tier /\ a < b

PriorityPosition(j) == 1 + Cardinality({h \in 1..Len(unique) : Precedes(h, j)})

\* C23: the blocks of _budget_fill are a prefix of the sequence "all CRITICAL
\* sections in original order, then all ERROR sections, then all WARNING
\* sections": the k-th block is the block of the k-th section of that sequence,
\* so nothing is emitted after a section that was skipped.
C23_BlocksArePrefixOfPriorityOrder ==
    FillStarted =>
        /\ Len(output_parts) <= Len(unique)
        /\ \A k \in 1..Len(output_parts) :
               \E j \in 1..Len(unique) :
                   /\ PriorityPosition(j) = k
                   /\ output_parts[k][1] = _make_header(unique[j])

\* a fill that stopped after two of three sections, the skipped one being the
\* WARNING section that comes second in the log
W23_StoppedBeforeEarlierWarning ==
    /\ pc = "done"
    /\ path = "assembled"
    /\ exhausted
    /\ Len(unique) = 3
    /\ Len(output_parts) = 2
    /\ unique[2].tier = TIER_WARNING
    /\ unique[3].tier = TIER_ERROR

\* ---- _format_section
FormatDone == pc = "done" /\ fs_formatted # << >>

FormattedLines == SplitLines(fs_formatted)

\* the window of the section: lines[section.start : section.end + 1]
Window == Slice(fs_lines, fs_section.start, fs_section.end + 1)

\* the window plus its header exceeds the lines available
DoesNotFit == Len(Window) + 1 > fs_max_lines

\* header + MIN_CLIP_LINES content lines + marker
MinimumClip == MIN_CLIP_LINES + 2

\* header, the first h lines of the window, the marker, the last t lines
ClippedAs(h, t) ==
    <<_make_header(fs_section)>> \o SubSeq(Window, 1, h)
        \o <<OmittedMarker(Len(Window) - h - t)>>
        \o SubSeq(Window, Len(Window) - t + 1, Len(Window))

\* C24: a section that does not fit, with room for the minimum clip, is emitted
\* as header + head lines + one "N lines omitted" marker + tail lines, exactly
\* as many lines as are available, the head at least as long as the tail, head
\* and tail not overlapping, N the number of window lines not shown.
C24_ClipFillsAvailableExactly ==
    (FormatDone /\ DoesNotFit /\ fs_max_lines >= MinimumClip) =>
        /\ Len(FormattedLines) = fs_max_lines
        /\ \E h, t \in 0..Len(Window) :
              /\ FormattedLines = ClippedAs(h, t)
              /\ h >= t
              /\ h + t <= Len(Window)

\* the smallest clip: three head lines, the marker, two tail lines
W24_SmallestClip ==
    /\ FormatDone
    /\ DoesNotFit
    /\ fs_max_lines = MinimumClip
    /\ FormattedLines = ClippedAs(3, 2)

\* C25 as stated: a section that does not fit, without room for the minimum
\* clip, is emitted as its header alone.
C25_HeaderAloneBelowMinimumClip ==
    (FormatDone /\ DoesNotFit /\ fs_max_lines < MinimumClip) =>
        FormattedLines = <<_make_header(fs_section)>>

\* C25, amended: a section that does not fit, without room for the minimum
\* clip, is emitted as its header alone when fewer than 3 lines are available,
\* and otherwise as header + the first max_lines - 2 window lines + the marker
\* for the rest, with no tail lines.
C25_HeaderAloneBelowThreeLines ==
    (FormatDone /\ DoesNotFit /\ fs_max_lines < MinimumClip) =>
        IF fs_max_lines < 3 THEN FormattedLines = <<_make_header(fs_section)>>
        ELSE FormattedLines = ClippedAs(fs_max_lines - 2, 0)

\* the budget _budget_fill still accepts, one short of the minimum clip
W25_HeadOnlyClipAtFillThreshold ==
    /\ FormatDone
    /\ DoesNotFit
    /\ fs_max_lines = MIN_CLIP_LINES + 1
    /\ Len(FormattedLines) = fs_max_lines
    /\ FormattedLines[fs_max_lines].k = "omitted"

\* ---- the soft budget
\* the report as assembled from parts, before the hard-limit guard
AssembledReport == SplitLines(Join(parts))

\* C26: before the hard-limit guard is applied, the assembled report (summary,
\* blank separators, head anchor, section blocks, tail anchor) has at most
\* max_lines lines.
C26_AssembledWithinMaxLines ==
    (pc = "done" /\ path = "assembled") => Len(AssembledReport) <= max_lines

\* ---- the repeat annotation
\* C27: the N of "repeated N more times" in an emitted section header is the
\* number of later sections collapsed into that section, repeat_count - 1, so
\* that the N of all deduplicated sections add up to the summary's "duplicates
\* collapsed"; a section without duplicates has no annotation (N = 0).
C27_RepeatTagCountsLaterDuplicates ==
    (Returned /\ path = "assembled") =>
        \A p \in 1..Len(OutLines) :
            IsSectionHeader(OutLines[p]) =>
                \E j \in 1..Len(unique) :
                    /\ unique[j].start + 1 = OutLines[p].near
                    /\ OutLines[p].repeat = unique[j].repeat_count - 1

\* ---- the first block
\* at least one line classified, and the anchors leave room for a section
RoomForASection ==
    /\ Returned
    /\ path \in {"small_budget", "no_parts", "assembled"}
    /\ max_lines - FixedCost(lines, include_head, include_tail) >= MIN_CLIP_LINES + 1

\* the chronologically first section of the most severe tier present
MostSevereFirst == CHOOSE j \in 1..Len(unique) : PriorityPosition(j) = 1

\* the first section header among the lines out is at position p
FirstHeaderAt(out, p) ==
    /\ p \in 1..Len(out)
    /\ IsSectionHeader(out[p])
    /\ \A q \in 1..(p - 1) : ~IsSectionHeader(out[q])

\* C28 as stated: with room for a section the returned string has a section
\* block, the first being that of the chronologically first section of the
\* most severe tier, and the "no error parts" fallback does not occur.
C28_FirstBlockReturned ==
    RoomForASection =>
        /\ path = "assembled"
        /\ \E p \in 1..Len(OutLines) :
              /\ FirstHeaderAt(OutLines, p)
              /\ OutLines[p] = _make_header(unique[MostSevereFirst])

\* C28, amended: with room for a section the assembled report has a section
\* block, the first being that of the chronologically first section of the
\* most severe tier, and the "no error parts" fallback does not occur; the
\* block's header is in the returned string whenever hard_limit is at least
\* its line number.
C28_FirstBlockAssembled ==
    RoomForASection =>
        /\ path = "assembled"
        /\ output_parts # << >>
        /\ \E p \in 1..Len(AssembledReport) :
              /\ FirstHeaderAt(AssembledReport, p)
              /\ AssembledReport[p] = _make_header(unique[MostSevereFirst])
              /\ hard_limit >= p => OutLines[p] = AssembledReport[p]

\* the smallest room, for a log whose first section is not of the most severe tier
W28_LaterSectionFirstAtSmallestRoom ==
    /\ RoomForASection
    /\ section_budget = MIN_CLIP_LINES + 1
    /\ Len(unique) >= 2
    /\ MostSevereFirst # 1
    /\ \E p \in 1..Len(OutLines) : OutLines[p] = _make_header(unique[MostSevereFirst])

\* ---- records per suite
RecordsOfSuite(s) == {p \in 1..Len(blasts) : blasts[p].suite_name = suites[s].suite_name}

RECURSIVE SharedTotal(_)
\* the sum of shared_count over the records ps
SharedTotal(ps) ==
    IF ps = {} THEN 0
    ELSE LET p == CHOOSE q \in ps : TRUE
         IN  blasts[p].shared_count + SharedTotal(ps \ {p})

AffectedSet(p) == {blasts[p].affected_tests[j] : j \in 1..Len(blasts[p].affected_tests)}

\* C29: under a threshold above 1/2 a suite has at most one record; under any
\* threshold the records of a suite are of different message groups with no
\* test in common, and their shared_counts add up to at most total_failures.
C29_AtMostOneRecordAboveHalf ==
    BlastDone =>
        \A s \in 1..Len(suites) :
            /\ 2 * threshold.num > threshold.den => Cardinality(RecordsOfSuite(s)) <= 1
            /\ \A p, q \in RecordsOfSuite(s) :
                  p # q => /\ blasts[p].shared_message # blasts[q].shared_message
                           /\ AffectedSet(p) \cap AffectedSet(q) = {}
            /\ SharedTotal(RecordsOfSuite(s)) <= FailingCount(s)
            /\ \A p \in RecordsOfSuite(s) : blasts[p].total_failures = FailingCount(s)

\* a suite with one record under the default threshold although a second
\* message group has failures too
W29_OneRecordBesideSmallerGroup ==
    /\ BlastDone
    /\ 2 * threshold.num > threshold.den
    /\ \E s \in 1..Len(suites) :
          /\ Cardinality(RecordsOfSuite(s)) = 1
          /\ Cardinality(GroupKeys(s)) >= 2

\* ---- get_stage_log
StageDone == pc = "done" /\ sl_result.kind # "pending"

PageOk(i) == sl_responses[i].kind = "ok"

\* the characters collected from the first i pages
RECURSIVE TotalAfter(_)
TotalAfter(i) ==
    IF i = 0 THEN 0
    ELSE TotalAfter(i - 1)
             + TextLen(_strip_html(Get(sl_responses[i].data.text, Html(0, FALSE))))

ReportedLength(i) == Get(sl_responses[i].data.length, 0)

\* page i is one after which the loop is to stop
Stops(i) ==
    \/ TotalAfter(i) >= _MAX_LOG_BYTES
    \/ ~Get(sl_responses[i].data.hasMore, FALSE)
    \/ ReportedLength(i) <= sl_requests[i]

\* increasing offsets from 0, a stop after the first page that calls for it and
\* not before, the empty string on a 404
PaginationDiscipline ==
    /\ Len(sl_requests) = Len(sl_responses)
    /\ sl_requests # << >> => sl_requests[1] = 0
    /\ \A i, j \in 1..Len(sl_requests) : i < j => sl_requests[i] < sl_requests[j]
    /\ \A i \in 1..Len(sl_responses) :
          /\ i < Len(sl_responses) => PageOk(i) /\ ~Stops(i)
          /\ (i = Len(sl_responses) /\ PageOk(i)) => (Stops(i) <=> pc = "done")
          /\ ~PageOk(i) => pc = "done"
          /\ (sl_responses[i].kind = "HTTPError" /\ sl_responses[i].status = 404)
                 => sl_result = [kind |-> "returned", value |-> << >>]

\* every page says hasMore = true and reports the same length
StuckServer ==
    /\ StageDone
    /\ \A i \in 1..Len(sl_responses) :
          /\ PageOk(i)
          /\ Get(sl_responses[i].data.hasMore, FALSE)
          /\ ReportedLength(i) = ReportedLength(1)

\* C30 as stated: the pagination discipline, and exactly one request to a
\* server that reports hasMore = true with a length that never advances.
C30_StuckServerOneRequest ==
    /\ PaginationDiscipline
    /\ StuckServer => Len(sl_requests) = 1

\* C30, amended: the pagination discipline, and at most two requests to a
\* server that reports hasMore = true with a length that never advances: one
\* when that length is 0 or the first page reaches the cap, two otherwise.
C30_StuckServerAtMostTwoRequests ==
    /\ PaginationDiscipline
    /\ StuckServer => Len(sl_requests) = (IF Stops(1) THEN 1 ELSE 2)

\* a server stuck at a length above 0: the second request is the last
W30_StuckAboveZero ==
    /\ StuckServer
    /\ ReportedLength(1) > 0
    /\ Len(sl_requests) = 2
    /\ sl_requests[2] = ReportedLength(1)
    /\ sl_result.kind = "returned"

====
